---- MODULE Spec2Model ----
(***************************************************************************)
(* A model of the airio transport-and-upgrade core:                        *)
(*   - the Upgrade helpers (ReadyUpgrade, PendingUpgrade, SelectUpgrade),  *)
(*   - the UpgradeApply negotiation driver (upgrade/apply.rs),             *)
(*   - the pipeline builder authenticate / apply / multiplex / boxed       *)
(*     (transport/upgrade.rs, transport/and_then.rs, transport/map.rs).    *)
(* Futures are modelled as records; one poll of a future is one function   *)
(* application that consumes the outcomes of the external futures it polls.*)
(***************************************************************************)
EXTENDS Integers, Sequences, FiniteSets, TLC

VARIABLES
    \* specification Spec: one UpgradeApply and its poller
    ua,        \* the UpgradeApply under test: its `inner` UpgradeApplyState
    uaArgs,    \* how it was constructed: entry, io and upgrade (history)
    uaTrace,   \* what its polls did, in program order (history)
    uaPolls,   \* number of polls issued so far
    \* specification SpecNeg: the two ends of one connection
    negUA,     \* side -> the `inner` state of that side's UpgradeApply
    negUp,     \* side -> the upgrade that side was constructed with
    negWire,   \* side -> the negotiation messages in flight towards it
    negLog,    \* side -> entrypoint calls and Ready returns (history)
    \* specification SpecPipe: connections of a transport built by the builder
    pipeline,  \* the combinators stacked on the base transport, innermost first
    conns,     \* the dialer and listener-upgrade futures handed out so far
    \* specification SpecListen: the listener and the calls of a stacked transport
    lsn,       \* the base listener: whether listen() was called, what it holds
    lsHist,    \* per poll_next that yielded, the event at every layer (history)
    lsSync     \* the failed connect()/listen() calls, each with the error at every layer (history)

uaVars == <<ua, uaArgs, uaTrace, uaPolls>>
negVars == <<negUA, negUp, negWire, negLog>>
pipeVars == <<pipeline, conns>>
lsVars == <<lsn, lsHist, lsSync>>
vars == <<uaVars, negVars, pipeVars, lsVars>>

-----------------------------------------------------------------------------
(* Bounds *)

MaxPolls == 4
\* apply() calls between authenticate() and multiplex()
MaxApply == 1
\* events a listener is polled for
MaxEvents == 2

-----------------------------------------------------------------------------
(* Values *)

Range(s) == {s[i] : i \in DOMAIN s}

\* Poll<Result<T, E>>
PollPending == [tag |-> "Pending"]
ReadyOk(v) == [tag |-> "Ready", ok |-> TRUE, val |-> v]
ReadyErr(e) == [tag |-> "Ready", ok |-> FALSE, err |-> e]
\* a panic unwinding out of poll
Panicked == [tag |-> "Panic"]

IsReady(r) == r.tag = "Ready"
IsReadyOk(r) == r.tag = "Ready" /\ r.ok
IsReadyErr(r) == r.tag = "Ready" /\ ~r.ok

\* Byte streams are stacks of layer names over a raw connection name.
RawStreams == << <<"c1">>, <<"c2">> >>
Streams == Range(RawStreams)

\* Negotiated<T>: the stream wrapped by the negotiator.
Negotiated(io) == <<"negotiated">> \o io

\* NegotiationError values of the negotiator.
NegotiationErrors == {[type |-> "NegotiationError", e |-> "Failed"],
                      [type |-> "NegotiationError", e |-> "ProtocolError"]}

\* Errors returned by an upgrade's own future (U::Error).
UpgradeErrors == {[type |-> "UpgradeFailure", e |-> "e1"]}

PeerIds == {"p1", "p2"}

\* UpgradeError<E>
UpgradeError_Select(e) == [variant |-> "Select", e |-> e]
UpgradeError_Apply(e) == [variant |-> "Apply", e |-> e]

\* either::Either used for tagged infos, outputs and errors
Either_Left(x) == [variant |-> "Left", e |-> x]
Either_Right(x) == [variant |-> "Right", e |-> x]

-----------------------------------------------------------------------------
(* Upgrades *)

ReadyUpgrade(p) == [kind |-> "ready", protocol_name |-> p]
PendingUpgrade(p) == [kind |-> "pending", protocol_name |-> p]
SelectUpgrade(a, b) == [kind |-> "select", a |-> a, b |-> b]
\* Either<A, B> as an upgrade: the variant it holds and the upgrade in it.
EitherUpgrade(variant, up) == [kind |-> "either", variant |-> variant, up |-> up]

\* A user-supplied implementation of the Upgrade trait with one protocol
\* name and a future that may stay pending, succeed or fail.  `output` names
\* the shape of its Output: "stream", "peer" for (PeerId, D), "muxer".
UserUpgrade(p, output) == [kind |-> "user", protocol_name |-> p, output |-> output]

\* An Info is a protocol name under a (possibly empty) stack of Left/Right
\* tags; info.as_ref() is the name.
Info(p) == [tags |-> <<>>, name |-> p]
TagInfo(t, i) == [tags |-> <<t>> \o i.tags, name |-> i.name]
UntagInfo(i) == [tags |-> Tail(i.tags), name |-> i.name]
as_ref(i) == i.name

MapSeq(f(_), s) == [k \in DOMAIN s |-> f(s[k])]

\* Mutant of protocol_info: SelectUpgrade chains B's tokens before A's.
RECURSIVE protocol_info_RightFirst(_)
protocol_info_RightFirst(u) ==
    IF u.kind = "select"
    THEN LET a == protocol_info_RightFirst(u.a)
             b == protocol_info_RightFirst(u.b)
             left(i) == TagInfo("Left", i)
             right(i) == TagInfo("Right", i)
         IN  MapSeq(right, b) \o MapSeq(left, a)
    ELSE IF u.kind = "either"
    THEN LET tag(i) == TagInfo(u.variant, i)
         IN  MapSeq(tag, protocol_info_RightFirst(u.up))
    ELSE <<Info(u.protocol_name)>>

RECURSIVE protocol_info(_)
protocol_info(u) ==
    IF u.kind = "select"
    THEN LET a == protocol_info(u.a)
             b == protocol_info(u.b)
             left(i) == TagInfo("Left", i)
             right(i) == TagInfo("Right", i)
         IN  MapSeq(left, a) \o MapSeq(right, b)
    ELSE IF u.kind = "either"
    THEN LET tag(i) == TagInfo(u.variant, i)
         IN  MapSeq(tag, protocol_info(u.up))
    ELSE <<Info(u.protocol_name)>>

\* Mutant of upgrade_entry: SelectUpgrade runs B for a Left info and A for a
\* Right one.
RECURSIVE upgrade_entry_Crossed(_, _, _, _)
upgrade_entry_Crossed(u, entry, stream, info) ==
    IF u.kind = "select"
    THEN IF info.tags[1] = "Left"
         THEN [fut |-> "EitherFuture", variant |-> "Left",
               inner |-> upgrade_entry_Crossed(u.b, entry, stream, UntagInfo(info)),
               entry |-> entry, stream |-> stream, info |-> info]
         ELSE [fut |-> "EitherFuture", variant |-> "Right",
               inner |-> upgrade_entry_Crossed(u.a, entry, stream, UntagInfo(info)),
               entry |-> entry, stream |-> stream, info |-> info]
    ELSE IF u.kind = "either"
    THEN IF info.tags[1] = u.variant
         THEN [fut |-> "EitherFuture", variant |-> u.variant,
               inner |-> upgrade_entry_Crossed(u.up, entry, stream, UntagInfo(info)),
               entry |-> entry, stream |-> stream, info |-> info]
         ELSE [fut |-> "Panic"]
    ELSE [fut |-> IF u.kind = "user" THEN "user" ELSE u.kind,
          value |-> stream, upgrade |-> u,
          entry |-> entry, stream |-> stream, info |-> info]

\* Mutant of upgrade_entry: an Either called with an info of the variant it
\* does not hold runs the upgrade it holds instead of panicking.
RECURSIVE upgrade_entry_NoPanic(_, _, _, _)
upgrade_entry_NoPanic(u, entry, stream, info) ==
    IF u.kind = "select"
    THEN IF info.tags[1] = "Left"
         THEN [fut |-> "EitherFuture", variant |-> "Left",
               inner |-> upgrade_entry_NoPanic(u.a, entry, stream, UntagInfo(info)),
               entry |-> entry, stream |-> stream, info |-> info]
         ELSE [fut |-> "EitherFuture", variant |-> "Right",
               inner |-> upgrade_entry_NoPanic(u.b, entry, stream, UntagInfo(info)),
               entry |-> entry, stream |-> stream, info |-> info]
    ELSE IF u.kind = "either"
    THEN [fut |-> "EitherFuture", variant |-> info.tags[1],
          inner |-> upgrade_entry_NoPanic(u.up, entry, stream, UntagInfo(info)),
          entry |-> entry, stream |-> stream, info |-> info]
    ELSE [fut |-> IF u.kind = "user" THEN "user" ELSE u.kind,
          value |-> stream, upgrade |-> u,
          entry |-> entry, stream |-> stream, info |-> info]

\* The future returned by an upgrade entrypoint.  Every future remembers the
\* entrypoint, stream and info it was built from and the leaf upgrade that
\* made it (history fields `entry`, `stream`, `info`, `upgrade`; only the
\* user future reads them).
RECURSIVE upgrade_entry(_, _, _, _)
upgrade_entry(u, entry, stream, info) ==
    CASE u.kind = "ready" ->
            [fut |-> "ready", value |-> stream, upgrade |-> u,
             entry |-> entry, stream |-> stream, info |-> info]
      [] u.kind = "pending" ->
            [fut |-> "pending", upgrade |-> u,
             entry |-> entry, stream |-> stream, info |-> info]
      [] u.kind = "user" ->
            [fut |-> "user", upgrade |-> u,
             entry |-> entry, stream |-> stream, info |-> info]
      [] u.kind = "select" ->
            IF info.tags[1] = "Left"
            THEN [fut |-> "EitherFuture", variant |-> "Left",
                  inner |-> upgrade_entry(u.a, entry, stream, UntagInfo(info)),
                  entry |-> entry, stream |-> stream, info |-> info]
            ELSE [fut |-> "EitherFuture", variant |-> "Right",
                  inner |-> upgrade_entry(u.b, entry, stream, UntagInfo(info)),
                  entry |-> entry, stream |-> stream, info |-> info]
      [] u.kind = "either" ->
            IF info.tags[1] = u.variant
            THEN [fut |-> "EitherFuture", variant |-> u.variant,
                  inner |-> upgrade_entry(u.up, entry, stream, UntagInfo(info)),
                  entry |-> entry, stream |-> stream, info |-> info]
            ELSE [fut |-> "Panic"]

upgrade_inbound(u, stream, info) == upgrade_entry(u, "inbound", stream, info)
upgrade_outbound(u, stream, info) == upgrade_entry(u, "outbound", stream, info)

\* What the poll of a user upgrade's future may return this time.
FutureChoices ==
    {[c |-> "Pending"]} \cup {[c |-> "Ok", peer |-> p] : p \in PeerIds}
        \cup {[c |-> "Err", e |-> e] : e \in UpgradeErrors}

\* The Output a user upgrade resolves with.
UserOutput(f, choice) ==
    CASE f.upgrade.output = "peer" ->
            [peer |-> choice.peer, io |-> <<f.upgrade.protocol_name>> \o f.stream]
      [] f.upgrade.output = "muxer" ->
            [muxer |-> f.upgrade.protocol_name, io |-> f.stream]
      [] OTHER -> <<f.upgrade.protocol_name>> \o f.stream

\* Mutant of Future_poll: the future of a ReadyUpgrade is not ready when it
\* is polled.
RECURSIVE Future_poll_ReadyPends(_, _)
Future_poll_ReadyPends(f, choice) ==
    CASE f.fut = "ready" -> PollPending
      [] f.fut = "pending" -> PollPending
      [] f.fut = "user" ->
            IF choice.c = "Pending" THEN PollPending
            ELSE IF choice.c = "Ok" THEN ReadyOk(UserOutput(f, choice))
            ELSE ReadyErr(choice.e)
      [] f.fut = "EitherFuture" ->
            LET r == Future_poll_ReadyPends(f.inner, choice)
            IN  IF r.tag = "Pending" THEN PollPending
                ELSE IF IsReadyOk(r)
                THEN ReadyOk([variant |-> f.variant, e |-> r.val])
                ELSE ReadyErr([variant |-> f.variant, e |-> r.err])

\* Mutant of Future_poll: EitherFuture tags what the Right future resolves
\* with as Left.
RECURSIVE Future_poll_TagsLeft(_, _)
Future_poll_TagsLeft(f, choice) ==
    CASE f.fut = "ready" -> ReadyOk(f.value)
      [] f.fut = "pending" -> PollPending
      [] f.fut = "user" ->
            IF choice.c = "Pending" THEN PollPending
            ELSE IF choice.c = "Ok" THEN ReadyOk(UserOutput(f, choice))
            ELSE ReadyErr(choice.e)
      [] f.fut = "EitherFuture" ->
            LET r == Future_poll_TagsLeft(f.inner, choice)
            IN  IF r.tag = "Pending" THEN PollPending
                ELSE IF IsReadyOk(r)
                THEN ReadyOk([variant |-> "Left", e |-> r.val])
                ELSE ReadyErr([variant |-> "Left", e |-> r.err])

\* One poll of an upgrade future.
RECURSIVE Future_poll(_, _)
Future_poll(f, choice) ==
    CASE f.fut = "ready" -> ReadyOk(f.value)
      [] f.fut = "pending" -> PollPending
      [] f.fut = "user" ->
            IF choice.c = "Pending" THEN PollPending
            ELSE IF choice.c = "Ok" THEN ReadyOk(UserOutput(f, choice))
            ELSE ReadyErr(choice.e)
      [] f.fut = "EitherFuture" ->
            LET r == Future_poll(f.inner, choice)
            IN  IF r.tag = "Pending" THEN PollPending
                ELSE IF IsReadyOk(r)
                THEN ReadyOk([variant |-> f.variant, e |-> r.val])
                ELSE ReadyErr([variant |-> f.variant, e |-> r.err])

-----------------------------------------------------------------------------
(* The negotiator, as UpgradeApply sees it *)

\* `next` is the index of the token the dialer proposes next (or has
\* proposed, when `awaiting` a reply).
DialerSelectFuture_new(io, protocols) ==
    [side |-> "dialer", io |-> io, protocols |-> protocols,
     next |-> 1, awaiting |-> FALSE]
ListenerSelectFuture_new(io, protocols) ==
    [side |-> "listener", io |-> io, protocols |-> protocols]

\* What one poll of a negotiator future may return: pending, one of the
\* protocols it was given together with the wrapped stream, or an error.
NegotiatorOutcomes(n) ==
    {PollPending}
        \cup {ReadyOk([info |-> n.protocols[k], io |-> Negotiated(n.io)]) :
                 k \in DOMAIN n.protocols}
        \cup {ReadyErr(e) : e \in NegotiationErrors}

-----------------------------------------------------------------------------
(* UpgradeApply *)

Undefined == [state |-> "Undefined"]

new_outbound(io, upgrade) ==
    [state |-> "DialerInit",
     future |-> DialerSelectFuture_new(io, protocol_info(upgrade)),
     upgrade |-> upgrade]

new_inbound(io, upgrade) ==
    [state |-> "ListenerInit",
     future |-> ListenerSelectFuture_new(io, protocol_info(upgrade)),
     upgrade |-> upgrade]

EvEnter(s) == [ev |-> "enter", state |-> s.state]
EvNegotiator(out) == [ev |-> "negotiator", out |-> out]
\* The leaf future an EitherFuture nest ends in.
RECURSIVE LeafFuture(_)
LeafFuture(f) == IF f.fut = "EitherFuture" THEN LeafFuture(f.inner) ELSE f

EvCall(f) ==
    [ev |-> "call", entry |-> f.entry, stream |-> f.stream, info |-> f.info,
     ran |-> LeafFuture(f).upgrade, leafEntry |-> LeafFuture(f).entry]
EvFuture(out) == [ev |-> "future", out |-> out]
EvReturn(ret) == [ev |-> "return", ret |-> ret]

\* Mutant of Restore: the arm returns Pending without putting the state back.
Restore_Forgotten(s) == Undefined

\* `self.inner = UpgradeApplyState::DialerInit { future, upgrade }` (and the
\* ListenerInit and Upgrade counterparts): the arm puts back the state that
\* mem::replace took out before it returns Pending.
Restore(s) == s

\* Mutant of FromNegotiationError: the error is wrapped as Apply.
FromNegotiationError_AsApply(e) == UpgradeError_Apply(e)

\* The `?` on the negotiator's result: From<NegotiationError>.
FromNegotiationError(e) == UpgradeError_Select(e)

\* Mutant of PollUpgradeArm: the arm leaves the scratch state when the
\* upgrade's future is pending.
PollUpgradeArm_NoRestore(s, choice) ==
    LET out == Future_poll(s.future, choice)
        ret == IF IsReadyOk(out) THEN ReadyOk(out.val)
               ELSE IF IsReadyErr(out) THEN ReadyErr(UpgradeError_Apply(out.err))
               ELSE PollPending
    IN  [inner |-> Undefined, ret |-> ret,
         events |-> <<EvEnter(s), EvFuture(out), EvReturn(ret)>>]

\* The Upgrade arm of the poll loop.
PollUpgradeArm(s, choice) ==
    LET out == Future_poll(s.future, choice)
        ret == IF IsReadyOk(out) THEN ReadyOk(out.val)
               ELSE IF IsReadyErr(out) THEN ReadyErr(UpgradeError_Apply(out.err))
               ELSE PollPending
    IN  [inner |-> IF out.tag = "Pending" THEN Restore(s) ELSE Undefined,
         ret |-> ret,
         events |-> <<EvEnter(s), EvFuture(out), EvReturn(ret)>>]

\* Mutant of UpgradeState: the two entrypoints are swapped.
UpgradeState_SwappedEntry(s, info, connection) ==
    [state |-> "Upgrade",
     future |-> IF s.state = "DialerInit"
                THEN upgrade_inbound(s.upgrade, connection, info)
                ELSE upgrade_outbound(s.upgrade, connection, info),
     name |-> as_ref(info)]

\* Mutant of UpgradeState: the future the entrypoint returned is dropped and
\* a pending future is stored in its place.
UpgradeState_DropsFuture(s, info, connection) ==
    [state |-> "Upgrade",
     future |-> [fut |-> "pending", upgrade |-> PendingUpgrade(as_ref(info)),
                 entry |-> IF s.state = "DialerInit" THEN "outbound" ELSE "inbound",
                 stream |-> connection, info |-> info],
     name |-> as_ref(info)]

\* Mutant of UpgradeState: the upgrade is given the first offered protocol
\* instead of the negotiated one.
UpgradeState_FirstInfo(s, info, connection) ==
    [state |-> "Upgrade",
     future |-> IF s.state = "DialerInit"
                THEN upgrade_outbound(s.upgrade, connection, s.future.protocols[1])
                ELSE upgrade_inbound(s.upgrade, connection, s.future.protocols[1]),
     name |-> as_ref(info)]

\* The state built when negotiation has succeeded with (info, connection).
UpgradeState(s, info, connection) ==
    [state |-> "Upgrade",
     future |-> IF s.state = "DialerInit"
                THEN upgrade_outbound(s.upgrade, connection, info)
                ELSE upgrade_inbound(s.upgrade, connection, info),
     name |-> as_ref(info)]

\* The DialerInit and ListenerInit arms of the poll loop, followed by the
\* next iteration of the loop when negotiation has succeeded.
PollInitArm(s, negOut, choice) ==
    IF negOut.tag = "Pending"
    THEN [inner |-> Restore(s), ret |-> PollPending,
          events |-> <<EvEnter(s), EvNegotiator(negOut), EvReturn(PollPending)>>]
    ELSE IF IsReadyErr(negOut)
    THEN LET ret == ReadyErr(FromNegotiationError(negOut.err))
         IN  [inner |-> Undefined, ret |-> ret,
              events |-> <<EvEnter(s), EvNegotiator(negOut), EvReturn(ret)>>]
    ELSE LET s2 == UpgradeState(s, negOut.val.info, negOut.val.io)
             r == PollUpgradeArm(s2, choice)
         IN  [inner |-> r.inner, ret |-> r.ret,
              events |-> <<EvEnter(s), EvNegotiator(negOut), EvCall(s2.future)>>
                            \o r.events]

\* Mutant of PollUndefinedArm: a finished UpgradeApply answers Pending.
PollUndefinedArm_Pending(s) ==
    [inner |-> Undefined, ret |-> PollPending,
     events |-> <<EvEnter(s), EvReturn(PollPending)>>]

\* The `_ => panic!("Invalid state in UpgradeApply")` arm.
PollUndefinedArm(s) ==
    [inner |-> Undefined, ret |-> Panicked,
     events |-> <<EvEnter(s), EvReturn(Panicked)>>]

\* <UpgradeApply as Future>::poll: the state it leaves, what it returns and
\* what it did.  negOut is what the negotiator returns if polled, choice
\* what the upgrade's future does if polled.
UpgradeApply_poll(s, negOut, choice) ==
    IF s.state \in {"DialerInit", "ListenerInit"}
    THEN PollInitArm(s, negOut, choice)
    ELSE IF s.state = "Upgrade"
    THEN PollUpgradeArm(s, choice)
    ELSE PollUndefinedArm(s)

\* The negotiator outcomes a poll in state s can meet.
NegOutcomesOf(s) ==
    IF s.state \in {"DialerInit", "ListenerInit"}
    THEN NegotiatorOutcomes(s.future)
    ELSE {PollPending}

-----------------------------------------------------------------------------
(* Specification Spec: one UpgradeApply and its poller *)

NotCreated == [state |-> "NotCreated"]

\* The upgrades an UpgradeApply is constructed over.
Upgrades ==
    {ReadyUpgrade("/a"), PendingUpgrade("/b"), UserUpgrade("/c", "stream"),
     SelectUpgrade(ReadyUpgrade("/a"), UserUpgrade("/c", "stream")),
     SelectUpgrade(UserUpgrade("/c", "peer"), PendingUpgrade("/b"))}

UaIdle ==
    /\ ua = NotCreated
    /\ uaArgs = [entry |-> "none"]
    /\ uaTrace = <<>>
    /\ uaPolls = 0

NegIdle ==
    /\ negUA = <<>>
    /\ negUp = <<>>
    /\ negWire = <<>>
    /\ negLog = <<>>

PipeIdle ==
    /\ pipeline = <<>>
    /\ conns = <<>>

LsIdle ==
    /\ lsn = [state |-> "none"]
    /\ lsHist = <<>>
    /\ lsSync = {}

Init == UaIdle /\ NegIdle /\ PipeIdle /\ LsIdle

NewOutbound ==
    /\ ua = NotCreated
    /\ \E io \in Streams, u \in Upgrades :
          /\ ua' = new_outbound(io, u)
          /\ uaArgs' = [entry |-> "outbound", io |-> io, upgrade |-> u]
    /\ UNCHANGED <<uaTrace, uaPolls, negVars, pipeVars, lsVars>>

NewInbound ==
    /\ ua = NotCreated
    /\ \E io \in Streams, u \in Upgrades :
          /\ ua' = new_inbound(io, u)
          /\ uaArgs' = [entry |-> "inbound", io |-> io, upgrade |-> u]
    /\ UNCHANGED <<uaTrace, uaPolls, negVars, pipeVars, lsVars>>

Poll ==
    /\ ua # NotCreated
    /\ uaPolls < MaxPolls
    /\ \E negOut \in NegOutcomesOf(ua), choice \in FutureChoices :
          LET r == UpgradeApply_poll(ua, negOut, choice)
          IN  /\ ua' = r.inner
              /\ uaTrace' = uaTrace \o r.events
    /\ uaPolls' = uaPolls + 1
    /\ UNCHANGED <<uaArgs, negVars, pipeVars, lsVars>>

Next == NewOutbound \/ NewInbound \/ Poll

Spec == Init /\ [][Next]_vars

-----------------------------------------------------------------------------
(* Specification SpecCancel: an UpgradeApply that may be dropped *)

\* The streams an upgrade's future owns: ReadyUpgrade's future holds the
\* stream in its Ok value, a user upgrade's future keeps the stream it was
\* given, PendingUpgrade's entrypoints drop the stream and return
\* future::pending().
RECURSIVE FutureStreams(_)
FutureStreams(f) ==
    IF f.fut = "EitherFuture" THEN FutureStreams(f.inner)
    ELSE IF f.fut = "ready" THEN <<f.value>>
    ELSE IF f.fut = "user" THEN <<f.stream>>
    ELSE <<>>

\* The streams the fields of an UpgradeApplyState own, in the order the
\* fields are declared and dropped: `future` is the negotiator (which owns
\* the io it was built over) or the upgrade's boxed future; `upgrade` and
\* `name` own no stream; Undefined has no field.
StateStreams(s) ==
    IF s.state \in {"DialerInit", "ListenerInit"} THEN <<s.future.io>>
    ELSE IF s.state = "Upgrade" THEN FutureStreams(s.future)
    ELSE <<>>

\* What is left of a dropped UpgradeApply: nothing but the record of what
\* its drop released.
Dropped(s) == [state |-> "Dropped", from |-> s.state, released |-> StateStreams(s)]

\* The owner drops the UpgradeApply between two polls.
Drop ==
    /\ ua # NotCreated
    /\ ua.state # "Dropped"
    /\ ua' = Dropped(ua)
    /\ UNCHANGED <<uaArgs, uaTrace, uaPolls, negVars, pipeVars, lsVars>>

PollLive == ua.state # "Dropped" /\ Poll

NextCancel == NewOutbound \/ NewInbound \/ PollLive \/ Drop

SpecCancel == Init /\ [][NextCancel]_vars

-----------------------------------------------------------------------------
(* Properties of UpgradeApply (specification Spec) *)

TraceIdx == DOMAIN uaTrace
IsEv(i, name) == uaTrace[i].ev = name
IsNegOk(i) == IsEv(i, "negotiator") /\ IsReadyOk(uaTrace[i].out)
IsNegErr(i) == IsEv(i, "negotiator") /\ IsReadyErr(uaTrace[i].out)
IsNegPending(i) == IsEv(i, "negotiator") /\ uaTrace[i].out.tag = "Pending"
IsFutErr(i) == IsEv(i, "future") /\ IsReadyErr(uaTrace[i].out)
IsReadyReturn(i) == IsEv(i, "return") /\ IsReady(uaTrace[i].ret)
IsErrReturn(i, variant) ==
    /\ IsEv(i, "return")
    /\ IsReadyErr(uaTrace[i].ret)
    /\ uaTrace[i].ret.err.variant = variant
LastReturn == uaTrace[Len(uaTrace)].ret

\* C1: an UpgradeApply made by new_outbound only calls upgrade_outbound and
\* one made by new_inbound only calls upgrade_inbound; the entrypoint is
\* called with the stream and info the negotiator returned, exactly when the
\* negotiator returns Ready(Ok), and the loop then enters the Upgrade state.
C1_EntrypointFollowsConstructor ==
    /\ \A i \in TraceIdx : IsEv(i, "call") =>
          /\ uaTrace[i].entry = uaArgs.entry
          /\ i > 1
          /\ IsNegOk(i - 1)
          /\ uaTrace[i].stream = uaTrace[i - 1].out.val.io
          /\ uaTrace[i].info = uaTrace[i - 1].out.val.info
    /\ \A i \in TraceIdx : IsNegOk(i) =>
          /\ i + 2 <= Len(uaTrace)
          /\ IsEv(i + 1, "call")
          /\ IsEv(i + 2, "enter")
          /\ uaTrace[i + 2].state = "Upgrade"

C1_Witness ==
    /\ ua.state = "Upgrade"
    /\ uaArgs.entry = "inbound"
    /\ \E i \in TraceIdx : IsEv(i, "call") /\ uaTrace[i].entry = "inbound"

\* C2: a negotiator failure e is returned as UpgradeError::Select(e) and no
\* entrypoint is called; a failure e of the upgrade's future is returned as
\* UpgradeError::Apply(e); Select is returned only for negotiator failures
\* and Apply only for failures of the upgrade's future.
C2_ErrorProvenance ==
    /\ \A i \in TraceIdx : IsNegErr(i) =>
          /\ i + 1 <= Len(uaTrace)
          /\ IsErrReturn(i + 1, "Select")
          /\ uaTrace[i + 1].ret.err.e = uaTrace[i].out.err
          /\ \A j \in TraceIdx : ~IsEv(j, "call")
    /\ \A i \in TraceIdx : IsFutErr(i) =>
          /\ i + 1 <= Len(uaTrace)
          /\ IsErrReturn(i + 1, "Apply")
          /\ uaTrace[i + 1].ret.err.e = uaTrace[i].out.err
    /\ \A i \in TraceIdx : IsErrReturn(i, "Select") => i > 1 /\ IsNegErr(i - 1)
    /\ \A i \in TraceIdx : IsErrReturn(i, "Apply") => i > 1 /\ IsFutErr(i - 1)
    /\ \A i \in TraceIdx : IsEv(i, "return") /\ IsReadyErr(uaTrace[i].ret) =>
          uaTrace[i].ret.err.variant \in {"Select", "Apply"}

C2_Witness ==
    /\ uaTrace # <<>>
    /\ IsErrReturn(Len(uaTrace), "Select")
    /\ \E i \in TraceIdx : IsNegPending(i)

\* A step that is a poll in which the negotiator returned Pending.
NegotiatorPendingStep ==
    /\ uaTrace' # uaTrace
    /\ uaTrace'[Len(uaTrace) + 2] = EvNegotiator(PollPending)

\* C3: the upgrade future is constructed at most once and only right after
\* the negotiator returned Ready(Ok); a poll in which the negotiator returns
\* Pending leaves the state (variant, negotiator, unconsumed upgrade) as it was.
C3_UpgradeConstructedOnce ==
    /\ [](/\ Cardinality({i \in TraceIdx : IsEv(i, "call")}) <= 1
          /\ \A i \in TraceIdx : IsEv(i, "call") => i > 1 /\ IsNegOk(i - 1))
    /\ [][NegotiatorPendingStep =>
             /\ ua' = ua
             /\ ua'.state \in {"DialerInit", "ListenerInit"}
             /\ ua'.upgrade = uaArgs.upgrade]_vars

C3_Witness ==
    /\ \E i \in TraceIdx : IsNegPending(i)
    /\ \E i \in TraceIdx : IsEv(i, "call")
    /\ ua.state = "Upgrade"

\* C4: Undefined is never seen by a poller of an UpgradeApply that has not
\* returned Ready: between polls the state is DialerInit, ListenerInit or
\* Upgrade, and a poll only finds Undefined after an earlier Ready.
C4_UndefinedNotObserved ==
    /\ (ua # NotCreated /\ \A i \in TraceIdx : ~IsReadyReturn(i)) =>
          ua.state \in {"DialerInit", "ListenerInit", "Upgrade"}
    /\ (uaTrace # <<>> /\ LastReturn = PollPending) => ua.state # "Undefined"
    /\ \A i \in TraceIdx : (IsEv(i, "enter") /\ uaTrace[i].state = "Undefined") =>
          \E j \in 1..(i - 1) : IsReadyReturn(j)

C4_Witness ==
    /\ uaPolls >= 3
    /\ LastReturn = PollPending
    /\ ua.state = "Upgrade"
    /\ \E i \in TraceIdx : IsNegPending(i)

\* C5: once an UpgradeApply has returned Ready, every later poll panics in
\* the Undefined state; at most one Ready is ever returned.
C5_PollAfterReadyPanics ==
    /\ \A i, j \in TraceIdx :
          (i < j /\ IsReadyReturn(i) /\ IsEv(j, "return")) => uaTrace[j].ret = Panicked
    /\ \A i, j \in TraceIdx :
          (i < j /\ IsReadyReturn(i) /\ IsEv(j, "enter")) => uaTrace[j].state = "Undefined"
    /\ Cardinality({i \in TraceIdx : IsReadyReturn(i)}) <= 1
    /\ (\E i \in TraceIdx : IsReadyReturn(i)) => ua.state = "Undefined"

C5_Witness ==
    /\ uaTrace # <<>>
    /\ LastReturn = Panicked
    /\ \E i \in TraceIdx : IsReadyReturn(i) /\ uaTrace[i].ret.ok

\* C6: whenever UpgradeApply enters the Upgrade state, the info given to the
\* upgrade is one of the tokens of protocol_info() of the upgrade it was
\* constructed with (tags included), and the recorded name is its string.
C6_SelectedInfoIsOffered ==
    /\ \A i \in TraceIdx : IsEv(i, "call") =>
          \E k \in DOMAIN protocol_info(uaArgs.upgrade) :
              uaTrace[i].info = protocol_info(uaArgs.upgrade)[k]
    /\ ua.state = "Upgrade" =>
          /\ \E k \in DOMAIN protocol_info(uaArgs.upgrade) :
                /\ ua.future.info = protocol_info(uaArgs.upgrade)[k]
                /\ ua.name = protocol_info(uaArgs.upgrade)[k].name
          /\ \E i \in TraceIdx : IsEv(i, "call") /\ uaTrace[i].info = ua.future.info

C6_Witness ==
    /\ ua.state = "Upgrade"
    /\ uaArgs.upgrade.kind = "select"
    /\ ua.future.info.tags = <<"Right">>

-----------------------------------------------------------------------------
(* The negotiation exchange between the two ends of a connection *)

MsgPropose(name) == [msg |-> "propose", name |-> name]
MsgAccept(name) == [msg |-> "accept", name |-> name]
MsgReject == [msg |-> "reject"]
MsgClose == [msg |-> "close"]

NegotiationFailed == [type |-> "NegotiationError", e |-> "Failed"]
NegotiationProtocolError == [type |-> "NegotiationError", e |-> "ProtocolError"]

NegResult(n, inbox, out, res) == [n |-> n, inbox |-> inbox, out |-> out, res |-> res]

\* One poll of the dialer's negotiator: it proposes its tokens in the order
\* given, one at a time, and resolves with the first one the listener
\* accepts; with no token left it fails.  inbox holds the replies that have
\* arrived; the result carries the messages it sent.
RECURSIVE DialerSelectFuture_poll(_, _)
DialerSelectFuture_poll(n, inbox) ==
    IF ~n.awaiting
    THEN IF n.next > Len(n.protocols)
         THEN NegResult(n, inbox, <<>>, ReadyErr(NegotiationFailed))
         ELSE LET r == DialerSelectFuture_poll([n EXCEPT !.awaiting = TRUE], inbox)
              IN  [r EXCEPT !.out = <<MsgPropose(as_ref(n.protocols[n.next]))>> \o @]
    ELSE IF inbox = <<>>
    THEN NegResult(n, inbox, <<>>, PollPending)
    ELSE IF Head(inbox).msg = "accept"
    THEN NegResult(n, Tail(inbox), <<>>,
                   ReadyOk([info |-> n.protocols[n.next], io |-> Negotiated(n.io)]))
    ELSE IF Head(inbox).msg = "reject"
    THEN DialerSelectFuture_poll([n EXCEPT !.awaiting = FALSE, !.next = @ + 1],
                                 Tail(inbox))
    ELSE NegResult(n, Tail(inbox), <<>>, ReadyErr(NegotiationProtocolError))

\* The listener's tokens whose string equals the proposed name.
Supported(n, name) == {k \in DOMAIN n.protocols : as_ref(n.protocols[k]) = name}
MinOf(S) == CHOOSE k \in S : \A j \in S : k <= j

\* One poll of the listener's negotiator: it answers every proposal that has
\* arrived, rejecting the names it does not support, and resolves with its
\* own token for the first name it supports; it fails when the remote has
\* closed the stream.
RECURSIVE ListenerSelectFuture_poll(_, _)
ListenerSelectFuture_poll(n, inbox) ==
    IF inbox = <<>>
    THEN NegResult(n, inbox, <<>>, PollPending)
    ELSE IF Head(inbox).msg = "propose"
    THEN IF Supported(n, Head(inbox).name) # {}
         THEN NegResult(n, Tail(inbox), <<MsgAccept(Head(inbox).name)>>,
                        ReadyOk([info |-> n.protocols[MinOf(Supported(n, Head(inbox).name))],
                                 io |-> Negotiated(n.io)]))
         ELSE LET r == ListenerSelectFuture_poll(n, Tail(inbox))
              IN  [r EXCEPT !.out = <<MsgReject>> \o @]
    ELSE NegResult(n, Tail(inbox), <<>>, ReadyErr(NegotiationProtocolError))

Negotiator_poll(n, inbox) ==
    IF n.side = "dialer"
    THEN DialerSelectFuture_poll(n, inbox)
    ELSE ListenerSelectFuture_poll(n, inbox)

-----------------------------------------------------------------------------
(* Specification SpecNeg: a dialer-side and a listener-side UpgradeApply over
   the same connection, both constructed with a SelectUpgrade *)

Sides == {"dialer", "listener"}
Peer(side) == IF side = "dialer" THEN "listener" ELSE "dialer"

\* The upgrades SelectUpgrade is built from in SpecNeg.
LeafUpgrades ==
    {ReadyUpgrade("/a"), ReadyUpgrade("/b"), UserUpgrade("/c", "stream"),
     PendingUpgrade("/d")}

SelectUpgrades == {SelectUpgrade(a, b) : a, b \in LeafUpgrades}

InitNeg ==
    /\ UaIdle
    /\ PipeIdle
    /\ LsIdle
    /\ negUp \in [Sides -> SelectUpgrades]
    /\ negUA = [side \in Sides |->
                   IF side = "dialer"
                   THEN new_outbound(<<"c1">>, negUp[side])
                   ELSE new_inbound(<<"c1">>, negUp[side])]
    /\ negWire = [side \in Sides |-> <<>>]
    /\ negLog = [side \in Sides |-> <<>>]

NegReturned(side) == \E i \in DOMAIN negLog[side] : negLog[side][i].ev = "return"

\* The events of a poll that the history keeps: entrypoint calls and returns
\* other than Pending.
Kept(events) ==
    SelectSeq(events, LAMBDA e : \/ e.ev = "call"
                                 \/ (e.ev = "return" /\ e.ret.tag # "Pending"))

\* The owner of `side` polls its UpgradeApply once.  The negotiator, when it
\* is polled, reads what has arrived and writes to the peer; an UpgradeApply
\* that fails drops the stream, which the peer sees as a close.
NegPoll(side) ==
    /\ ~NegReturned(side)
    /\ \E choice \in FutureChoices :
          LET s == negUA[side]
              init == s.state \in {"DialerInit", "ListenerInit"}
              np == IF init THEN Negotiator_poll(s.future, negWire[side])
                    ELSE NegResult(<<>>, negWire[side], <<>>, PollPending)
              polled == IF init THEN [s EXCEPT !.future = np.n] ELSE s
              r == UpgradeApply_poll(polled, np.res, choice)
              closing == IF IsReadyErr(r.ret) THEN <<MsgClose>> ELSE <<>>
          IN  /\ negUA' = [negUA EXCEPT ![side] = r.inner]
              /\ negWire' = [negWire EXCEPT ![side] = np.inbox,
                                            ![Peer(side)] = @ \o np.out \o closing]
              /\ negLog' = [negLog EXCEPT ![side] = @ \o Kept(r.events)]
    /\ UNCHANGED <<negUp, uaVars, pipeVars, lsVars>>

PollDialerSide == NegPoll("dialer")
PollListenerSide == NegPoll("listener")

NextNeg == PollDialerSide \/ PollListenerSide

SpecNeg == InitNeg /\ [][NextNeg]_vars

\* Both owners keep polling their future until it returns Ready.
SpecNegFair ==
    SpecNeg /\ WF_vars(PollDialerSide) /\ WF_vars(PollListenerSide)

-----------------------------------------------------------------------------
(* Properties of negotiation (specification SpecNegFair) *)

NamesOf(u) == {as_ref(protocol_info(u)[k]) : k \in DOMAIN protocol_info(u)}
CallsOf(side) == {negLog[side][i] : i \in {j \in DOMAIN negLog[side] : negLog[side][j].ev = "call"}}
ReturnsOf(side) == {negLog[side][i].ret : i \in {j \in DOMAIN negLog[side] : negLog[side][j].ev = "return"}}
Disjoint == NamesOf(negUp["dialer"]) \cap NamesOf(negUp["listener"]) = {}
FailedSelect(side) ==
    \E r \in ReturnsOf(side) : IsReadyErr(r) /\ r.err.variant = "Select"

\* What holds of every state: a side that runs an upgrade runs the one of its
\* own tokens that was negotiated, that token's name is offered by both
\* sides, and two sides that both run an upgrade run the same name; with no
\* common name no upgrade runs and nothing but Select is returned.
C7_Agreement ==
    /\ \A side \in Sides : \A c \in CallsOf(side) :
          /\ \E k \in DOMAIN protocol_info(negUp[side]) :
                c.info = protocol_info(negUp[side])[k]
          /\ c.ran.protocol_name = as_ref(c.info)
          /\ as_ref(c.info) \in NamesOf(negUp["dialer"]) \cap NamesOf(negUp["listener"])
    /\ \A c \in CallsOf("dialer") : \A d \in CallsOf("listener") :
          /\ as_ref(c.info) = as_ref(d.info)
          /\ c.ran.protocol_name = d.ran.protocol_name
    /\ Disjoint =>
          \A side \in Sides :
              /\ CallsOf(side) = {}
              /\ \A r \in ReturnsOf(side) : IsReadyErr(r) /\ r.err.variant = "Select"

\* C7: negotiation agreement.  When both ends use SelectUpgrade(A, B), the
\* protocol each side selects is the same token and is in both sides' info
\* iterators; when the two token sets do not intersect, both sides end with
\* UpgradeError::Select and neither runs an upgrade.
C7_NegotiationAgreement ==
    /\ []C7_Agreement
    /\ Disjoint ~> (FailedSelect("dialer") /\ FailedSelect("listener"))

\* Both sides run an upgrade, selected under different tags.
C7_Witness ==
    /\ \E c \in CallsOf("dialer") : \E d \in CallsOf("listener") :
          /\ c.info.tags = <<"Right">>
          /\ d.info.tags = <<"Left">>
          /\ as_ref(c.info) = as_ref(d.info)
    /\ negWire["dialer"] = <<>>

-----------------------------------------------------------------------------
(* The pipeline builder: authenticate, apply, multiplex, boxed *)

None == [some |-> FALSE]
Some(v) == [some |-> TRUE, v |-> v]

\* ConnectedPoint
ConnectedPoint_Dialer(addr) == [variant |-> "Dialer", addr |-> addr]
ConnectedPoint_Listener(local_addr, remote_addr) ==
    [variant |-> "Listener", local_addr |-> local_addr, remote_addr |-> remote_addr]
is_dialer(endpoint) == endpoint.variant = "Dialer"

\* Errors of the base transport's futures.
TransportErrors == {[type |-> "TransportError", e |-> "reset"]}

\* TransportUpgradeError<TE, UE>
TransportUpgradeError_Transport(e) == [variant |-> "Transport", e |-> e]
TransportUpgradeError_Upgrade(e) == [variant |-> "Upgrade", e |-> e]

\* box_err: io::Error::other(e)
box_err(e) == [type |-> "io::Error", source |-> e]

\* The upgrade given to each builder call.
StageUpgrade(kind) ==
    IF kind = "authenticate" THEN UserUpgrade("/id", "peer")
    ELSE IF kind = "apply" THEN UserUpgrade("/app", "stream")
    ELSE UserUpgrade("/mux", "muxer")

\* Builder::upgrade().authenticate(U).apply(U)^n.multiplex(U).boxed(): the
\* combinators over the base transport, innermost first.
RECURSIVE Applies(_)
Applies(n) == IF n = 0 THEN <<>> ELSE <<"apply">> \o Applies(n - 1)
Pipeline(n) == <<"authenticate">> \o Applies(n) \o <<"multiplex", "boxed">>

\* The closure of authenticate().
Authenticate_closure(upgrade, io, endpoint) ==
    [fut |-> "Authenticate",
     inner |-> IF is_dialer(endpoint)
               THEN new_outbound(io, upgrade)
               ELSE new_inbound(io, upgrade)]

\* Mutant of Multiplex_closure: the PeerId kept for the output is a fixed
\* one instead of the one that came in.
Multiplex_closure_FixedPeer(upgrade, id, io, endpoint) ==
    [fut |-> "Multiplex",
     peer_id |-> Some("p1"),
     upgrade |-> IF is_dialer(endpoint)
                 THEN new_outbound(io, upgrade)
                 ELSE new_inbound(io, upgrade)]

\* The closure of multiplex().
Multiplex_closure(upgrade, id, io, endpoint) ==
    [fut |-> "Multiplex",
     peer_id |-> Some(id),
     upgrade |-> IF is_dialer(endpoint)
                 THEN new_outbound(io, upgrade)
                 ELSE new_inbound(io, upgrade)]

\* The UpgradeApply that apply's UpgradeFuture builds for its role.
UpgradeFuture_apply(role, io, upgrade) ==
    IF role = "Dialer" THEN new_outbound(io, upgrade) ELSE new_inbound(io, upgrade)

\* The closure of Multiplexed::boxed().
Boxed_closure(out) == [peer |-> out.peer, muxer |-> [boxed |-> out.muxer]]

\* The function given to a plain map(f): its result on output o at point p.
MapFn(o, p) == [f |-> "f", o |-> o, p |-> p]

\* The function given to a plain and_then(f): the future it returns.
AndThenFn(o, p) == [fut |-> "MapFut", o |-> o, p |-> p, done |-> FALSE]

\* Errors of the future an and_then function returns.
MapFutErrors == {[type |-> "MapFutError", e |-> "m1"]}

\* The function given to map_err(f): its result on error e.
MapErrFn(e) == [g |-> "g", arg |-> e]

\* The future each combinator returns from connect(addr).
Layer_connect(kind, addr) ==
    IF kind \in {"authenticate", "multiplex"}
    THEN [layer |-> "AndThenFuture", inner |-> "Left",
          args |-> Some([map |-> kind, upgrade |-> StageUpgrade(kind),
                         connected_point |-> ConnectedPoint_Dialer(addr)])]
    ELSE IF kind = "apply"
    THEN [layer |-> "UpgradeFuture", role |-> "Dialer",
          upgrade |-> [variant |-> "Left", up |-> Some(StageUpgrade(kind))]]
    ELSE IF kind = "map"
    THEN [layer |-> "MapFuture",
          args |-> Some([fun |-> "f", connected_point |-> ConnectedPoint_Dialer(addr)])]
    ELSE IF kind = "and_then"
    THEN [layer |-> "AndThenFuture", inner |-> "Left",
          args |-> Some([map |-> kind, connected_point |-> ConnectedPoint_Dialer(addr)])]
    ELSE IF kind = "map_err"
    THEN [layer |-> "MapErr", f |-> Some("g")]
    ELSE IF kind = "box"
    THEN [layer |-> "Boxed", f |-> Some("box_err")]
    ELSE [layer |-> "MapFuture",
          args |-> Some([connected_point |-> ConnectedPoint_Dialer(addr)])]

\* Mutant of Layer_incoming: apply's listener gives its future the Dialer role.
Layer_incoming_DialerRole(kind, local_addr, remote_addr) ==
    IF kind \in {"authenticate", "multiplex"}
    THEN [layer |-> "AndThenFuture", inner |-> "Left",
          args |-> Some([map |-> kind, upgrade |-> StageUpgrade(kind),
                         connected_point |->
                             ConnectedPoint_Listener(local_addr, remote_addr)])]
    ELSE IF kind = "apply"
    THEN [layer |-> "UpgradeFuture", role |-> "Dialer",
          upgrade |-> [variant |-> "Left", up |-> Some(StageUpgrade(kind))]]
    ELSE IF kind = "map"
    THEN [layer |-> "MapFuture",
          args |-> Some([fun |-> "f", connected_point |-> ConnectedPoint_Listener(local_addr, remote_addr)])]
    ELSE IF kind = "and_then"
    THEN [layer |-> "AndThenFuture", inner |-> "Left",
          args |-> Some([map |-> kind, connected_point |-> ConnectedPoint_Listener(local_addr, remote_addr)])]
    ELSE IF kind = "map_err"
    THEN [layer |-> "MapErr", f |-> Some("g")]
    ELSE IF kind = "box"
    THEN [layer |-> "Boxed", f |-> Some("box_err")]
    ELSE [layer |-> "MapFuture",
          args |-> Some([connected_point |->
                             ConnectedPoint_Listener(local_addr, remote_addr)])]

\* Every Incoming event given the ConnectedPoint of one and the same
\* connection.
Layer_incoming_SharedPoint(kind, local_addr, remote_addr) ==
    IF kind = "apply"
    THEN [Layer_incoming_DialerRole(kind, "a1", "a2") EXCEPT !.role = "Listener"]
    ELSE Layer_incoming_DialerRole(kind, "a1", "a2")

\* The future each combinator's listener puts into an Incoming event.
Layer_incoming(kind, local_addr, remote_addr) ==
    IF kind \in {"authenticate", "multiplex"}
    THEN [layer |-> "AndThenFuture", inner |-> "Left",
          args |-> Some([map |-> kind, upgrade |-> StageUpgrade(kind),
                         connected_point |->
                             ConnectedPoint_Listener(local_addr, remote_addr)])]
    ELSE IF kind = "apply"
    THEN [layer |-> "UpgradeFuture", role |-> "Listener",
          upgrade |-> [variant |-> "Left", up |-> Some(StageUpgrade(kind))]]
    ELSE IF kind = "map"
    THEN [layer |-> "MapFuture",
          args |-> Some([fun |-> "f", connected_point |-> ConnectedPoint_Listener(local_addr, remote_addr)])]
    ELSE IF kind = "and_then"
    THEN [layer |-> "AndThenFuture", inner |-> "Left",
          args |-> Some([map |-> kind, connected_point |-> ConnectedPoint_Listener(local_addr, remote_addr)])]
    ELSE IF kind = "map_err"
    THEN [layer |-> "MapErr", f |-> Some("g")]
    ELSE IF kind = "box"
    THEN [layer |-> "Boxed", f |-> Some("box_err")]
    ELSE [layer |-> "MapFuture",
          args |-> Some([connected_point |->
                             ConnectedPoint_Listener(local_addr, remote_addr)])]

\* History of a connection: what happened at which stage, in program order.
EvStart(k, s) ==
    [stage |-> k, ev |-> "start",
     entry |-> IF s.state = "DialerInit" THEN "outbound" ELSE "inbound"]
EvStageCall(k, e) == [stage |-> k, ev |-> "call", entry |-> e.entry]
EvUpgraded(k, e) == [stage |-> k, ev |-> "upgraded", val |-> e.out.val]
EvOutput(k, out) == [stage |-> k, ev |-> "output", out |-> out]
EvError(k, err) == [stage |-> k, ev |-> "error", err |-> err]
\* A failure of the negotiator or of the upgrade's future inside stage k.
EvFailed(k, e) == [stage |-> k, ev |-> "failed", origin |-> e.ev, err |-> e.out.err]
\* What the base transport's future returned.
EvBase(ret) == [stage |-> 0, ev |-> "base", ret |-> ret]
\* A call of the function given to map, and_then or map_err at layer k.
EvFnCall(k, arg, p) == [stage |-> k, ev |-> "fn", arg |-> arg, p |-> p]

\* The entrypoint calls, the completions of the upgrade's future and the
\* failures among the events of an UpgradeApply poll.
StageCalls(k, events) ==
    LET kept == SelectSeq(events, LAMBDA e : \/ e.ev = "call"
                                             \/ (e.ev = "future" /\ IsReady(e.out))
                                             \/ (e.ev = "negotiator" /\ IsReadyErr(e.out)))
    IN  [i \in DOMAIN kept |->
            IF kept[i].ev = "call" THEN EvStageCall(k, kept[i])
            ELSE IF IsReadyOk(kept[i].out) THEN EvUpgraded(k, kept[i])
            ELSE EvFailed(k, kept[i])]

\* What the negotiator or upgrade future polled last in an UpgradeApply
\* poll returned (`old` when the poll reached neither).
LastLeaf(events, old) ==
    LET polled == SelectSeq(events, LAMBDA e : e.ev \in {"negotiator", "future"})
    IN  IF polled = <<>> THEN old ELSE polled[Len(polled)].out

\* What a layer's poll hands to its caller, with the history it leaves.
Returned(c, k, ret) ==
    [c |-> [c EXCEPT !.log =
                @ \o (IF IsReadyOk(ret) THEN <<EvOutput(k, ret.val)>>
                      ELSE IF IsReadyErr(ret) THEN <<EvError(k, ret.err)>>
                      ELSE <<>>)],
     ret |-> ret]

\* The polls of an UpgradeApply in state s under every outcome of the
\* negotiator and of the upgrade's future (one negotiation error stands for
\* all of them here).
UpgradeApply_polls(s) ==
    {UpgradeApply_poll(s, negOut, choice) :
        negOut \in {o \in NegOutcomesOf(s) :
                       IsReadyErr(o) => o.err = NegotiationFailed},
        choice \in FutureChoices}

\* What a future that has returned Ready does when it is polled again is
\* left open by the Future contract: it may panic, stay pending or return a
\* result once more.
RepollOutcomes(io) ==
    {Panicked, PollPending, ReadyOk(io)} \cup {ReadyErr(e) : e \in TransportErrors}

\* The base transport's Dialer / ListenerUpgrade future.
Base_poll(c) ==
    IF c.base = "done"
    THEN {[c |-> [c EXCEPT !.leaf = ret], ret |-> ret] : ret \in RepollOutcomes(c.io)}
    ELSE IF c.base = "ok"
    THEN {[c |-> [c EXCEPT !.base = "done", !.log = Append(@, EvBase(ReadyOk(c.io))),
                           !.leaf = ReadyOk(c.io)],
           ret |-> ReadyOk(c.io)]}
    ELSE {[c |-> [c EXCEPT !.leaf = PollPending], ret |-> PollPending]}
         \cup {[c |-> [c EXCEPT !.base = "done", !.log = Append(@, EvBase(ret)),
                                !.leaf = ret],
                 ret |-> ret] :
                  ret \in {ReadyOk(c.io)} \cup {ReadyErr(e) : e \in TransportErrors}}

\* Mutant of Multiplex_poll: the peer id is taken out before the upgrade is
\* known to be ready.
Multiplex_poll_TakesEarly(f, r) ==
    IF ~f.peer_id.some
    THEN [fut |-> [f EXCEPT !.upgrade = r.inner], ret |-> Panicked]
    ELSE IF r.ret.tag # "Ready"
    THEN [fut |-> [f EXCEPT !.upgrade = r.inner, !.peer_id = None], ret |-> r.ret]
    ELSE IF ~r.ret.ok
    THEN [fut |-> [f EXCEPT !.upgrade = r.inner], ret |-> ReadyErr(r.ret.err)]
    ELSE [fut |-> [f EXCEPT !.upgrade = r.inner, !.peer_id = None],
          ret |-> ReadyOk([peer |-> f.peer_id.v, muxer |-> r.ret.val])]

\* <Multiplex as Future>::poll applied to the result of its UpgradeApply.
Multiplex_poll(f, r) ==
    IF r.ret.tag # "Ready" THEN [fut |-> [f EXCEPT !.upgrade = r.inner], ret |-> r.ret]
    ELSE IF ~r.ret.ok
    THEN [fut |-> [f EXCEPT !.upgrade = r.inner], ret |-> ReadyErr(r.ret.err)]
    ELSE IF ~f.peer_id.some
    THEN [fut |-> [f EXCEPT !.upgrade = r.inner], ret |-> Panicked]
    ELSE [fut |-> [f EXCEPT !.upgrade = r.inner, !.peer_id = None],
          ret |-> ReadyOk([peer |-> f.peer_id.v, muxer |-> r.ret.val])]

\* <Authenticate as Future>::poll applied to the result of its UpgradeApply.
Authenticate_poll(f, r) == [fut |-> [f EXCEPT !.inner = r.inner], ret |-> r.ret]

\* The polls of the future an and_then function returned.
MapFut_polls(f) ==
    IF f.done
    THEN {[fut |-> f, ret |-> Panicked], [fut |-> f, ret |-> PollPending],
          [fut |-> f, ret |-> ReadyOk([h |-> "h", o |-> f.o, p |-> f.p])]}
         \cup {[fut |-> f, ret |-> ReadyErr(e)] : e \in MapFutErrors}
    ELSE {[fut |-> f, ret |-> PollPending],
          [fut |-> [f EXCEPT !.done = TRUE],
           ret |-> ReadyOk([h |-> "h", o |-> f.o, p |-> f.p])]}
         \cup {[fut |-> [f EXCEPT !.done = TRUE], ret |-> ReadyErr(e)] :
                  e \in MapFutErrors}

\* The history a poll of the map future of layer k leaves.
MapFutEvents(k, ret) ==
    IF IsReadyErr(ret) THEN <<EvFailed(k, EvFuture(ret))>> ELSE <<>>

\* Mutant of AndThenFuture_right: a failure of the map future is reported
\* under the tag of the inner transport.
AndThenFuture_right_TaggedLeft(k, c) ==
    LET l == c.layers[k]
        s == IF l.fut.fut = "Authenticate" THEN l.fut.inner ELSE l.fut.upgrade
    IN  IF l.fut.fut = "MapFut"
        THEN {LET ret == IF IsReadyErr(m.ret) THEN ReadyErr(Either_Left(m.ret.err))
                         ELSE m.ret
                  c2 == [c EXCEPT !.layers[k].fut = m.fut,
                                  !.log = @ \o MapFutEvents(k, m.ret),
                                  !.leaf = m.ret]
              IN  Returned(c2, k, ret) : m \in MapFut_polls(l.fut)}
        ELSE
        {LET m == IF l.fut.fut = "Authenticate"
                  THEN Authenticate_poll(l.fut, r)
                  ELSE Multiplex_poll(l.fut, r)
             ret == IF IsReadyErr(m.ret) THEN ReadyErr(Either_Left(m.ret.err))
                    ELSE m.ret
             c2 == [c EXCEPT !.layers[k].fut = m.fut,
                             !.log = @ \o StageCalls(k, r.events),
                             !.leaf = LastLeaf(r.events, @)]
         IN  Returned(c2, k, ret) : r \in UpgradeApply_polls(s)}

\* AndThenFuture::poll, Either::Right arm: the map future is polled.
AndThenFuture_right(k, c) ==
    LET l == c.layers[k]
        s == IF l.fut.fut = "Authenticate" THEN l.fut.inner ELSE l.fut.upgrade
    IN  IF l.fut.fut = "MapFut"
        THEN {LET ret == IF IsReadyErr(m.ret) THEN ReadyErr(Either_Right(m.ret.err))
                         ELSE m.ret
                  c2 == [c EXCEPT !.layers[k].fut = m.fut,
                                  !.log = @ \o MapFutEvents(k, m.ret),
                                  !.leaf = m.ret]
              IN  Returned(c2, k, ret) : m \in MapFut_polls(l.fut)}
        ELSE
        {LET m == IF l.fut.fut = "Authenticate"
                  THEN Authenticate_poll(l.fut, r)
                  ELSE Multiplex_poll(l.fut, r)
             ret == IF IsReadyErr(m.ret) THEN ReadyErr(Either_Right(m.ret.err))
                    ELSE m.ret
             c2 == [c EXCEPT !.layers[k].fut = m.fut,
                             !.log = @ \o StageCalls(k, r.events),
                             !.leaf = LastLeaf(r.events, @)]
         IN  Returned(c2, k, ret) : r \in UpgradeApply_polls(s)}

\* Mutant of AndThenFuture_left: the map function is called with whatever
\* the inner future resolved to.
AndThenFuture_left_CallsOnError(k, r) ==
    IF r.ret.tag = "Pending" \/ r.ret.tag = "Panic"
    THEN {r}
    ELSE LET l == r.c.layers[k]
         IN  IF ~l.args.some
             THEN {[c |-> r.c, ret |-> Panicked]}
             ELSE LET a == l.args.v
                      val == IF r.ret.ok THEN r.ret.val ELSE r.ret.err
                      fut == IF a.map = "authenticate"
                             THEN Authenticate_closure(a.upgrade, val, a.connected_point)
                             ELSE IF a.map = "multiplex"
                             THEN Multiplex_closure(a.upgrade, val.peer, val.io,
                                                    a.connected_point)
                             ELSE AndThenFn(val, a.connected_point)
                      s == IF a.map = "authenticate" THEN fut.inner ELSE fut.upgrade
                      called == IF a.map = "and_then"
                                THEN EvFnCall(k, val, a.connected_point)
                                ELSE EvStart(k, s)
                      c2 == [r.c EXCEPT !.layers[k] =
                                            [layer |-> "AndThenFuture", inner |-> "Right",
                                             args |-> None, fut |-> fut],
                                        !.log = Append(@, called)]
                  IN  IF r.ret.ok THEN AndThenFuture_right(k, c2)
                      ELSE IF a.map = "and_then"
                      THEN {Returned(c2, k, ReadyErr(Either_Left(r.ret.err)))}
                      ELSE {Returned(r.c, k, ReadyErr(Either_Left(r.ret.err)))}

\* Mutant of AndThenFuture_left: the map future is stored when the inner
\* future is ready and polled only in the next poll.
AndThenFuture_left_Yields(k, r) ==
    IF r.ret.tag = "Pending" \/ r.ret.tag = "Panic"
    THEN {r}
    ELSE IF ~r.ret.ok
    THEN {Returned(r.c, k, ReadyErr(Either_Left(r.ret.err)))}
    ELSE LET l == r.c.layers[k]
         IN  IF ~l.args.some
             THEN {[c |-> r.c, ret |-> Panicked]}
             ELSE LET a == l.args.v
                      fut == IF a.map = "authenticate"
                             THEN Authenticate_closure(a.upgrade, r.ret.val,
                                                       a.connected_point)
                             ELSE IF a.map = "multiplex"
                             THEN Multiplex_closure(a.upgrade, r.ret.val.peer,
                                                    r.ret.val.io, a.connected_point)
                             ELSE AndThenFn(r.ret.val, a.connected_point)
                      s == IF a.map = "authenticate" THEN fut.inner ELSE fut.upgrade
                      called == IF a.map = "and_then"
                                THEN EvFnCall(k, r.ret.val, a.connected_point)
                                ELSE EvStart(k, s)
                      c2 == [r.c EXCEPT !.layers[k] =
                                            [layer |-> "AndThenFuture", inner |-> "Right",
                                             args |-> None, fut |-> fut],
                                        !.log = Append(@, called)]
                  IN  {[c |-> c2, ret |-> PollPending]}

\* The Left arm taking args out before it looks at the inner future's result.
AndThenFuture_left_TakesOnError(k, r) ==
    IF r.ret.tag = "Pending" \/ r.ret.tag = "Panic"
    THEN {r}
    ELSE IF ~r.ret.ok
    THEN {Returned([r.c EXCEPT !.layers[k].args = None], k,
                   ReadyErr(Either_Left(r.ret.err)))}
    ELSE LET l == r.c.layers[k]
         IN  IF ~l.args.some
             THEN {[c |-> r.c, ret |-> Panicked]}
             ELSE LET a == l.args.v
                      fut == IF a.map = "authenticate"
                             THEN Authenticate_closure(a.upgrade, r.ret.val,
                                                       a.connected_point)
                             ELSE IF a.map = "multiplex"
                             THEN Multiplex_closure(a.upgrade, r.ret.val.peer,
                                                    r.ret.val.io, a.connected_point)
                             ELSE AndThenFn(r.ret.val, a.connected_point)
                      s == IF a.map = "authenticate" THEN fut.inner ELSE fut.upgrade
                      called == IF a.map = "and_then"
                                THEN EvFnCall(k, r.ret.val, a.connected_point)
                                ELSE EvStart(k, s)
                      c2 == [r.c EXCEPT !.layers[k] =
                                            [layer |-> "AndThenFuture", inner |-> "Right",
                                             args |-> None, fut |-> fut],
                                        !.log = Append(@, called)]
                  IN  AndThenFuture_right(k, c2)

\* AndThenFuture::poll, Either::Left arm, given what the inner future returned.
AndThenFuture_left(k, r) ==
    IF r.ret.tag = "Pending" \/ r.ret.tag = "Panic"
    THEN {r}
    ELSE IF ~r.ret.ok
    THEN {Returned(r.c, k, ReadyErr(Either_Left(r.ret.err)))}
    ELSE LET l == r.c.layers[k]
         IN  IF ~l.args.some
             THEN {[c |-> r.c, ret |-> Panicked]}
             ELSE LET a == l.args.v
                      fut == IF a.map = "authenticate"
                             THEN Authenticate_closure(a.upgrade, r.ret.val,
                                                       a.connected_point)
                             ELSE IF a.map = "multiplex"
                             THEN Multiplex_closure(a.upgrade, r.ret.val.peer,
                                                    r.ret.val.io, a.connected_point)
                             ELSE AndThenFn(r.ret.val, a.connected_point)
                      s == IF a.map = "authenticate" THEN fut.inner ELSE fut.upgrade
                      called == IF a.map = "and_then"
                                THEN EvFnCall(k, r.ret.val, a.connected_point)
                                ELSE EvStart(k, s)
                      c2 == [r.c EXCEPT !.layers[k] =
                                            [layer |-> "AndThenFuture", inner |-> "Right",
                                             args |-> None, fut |-> fut],
                                        !.log = Append(@, called)]
                  IN  AndThenFuture_right(k, c2)

\* Mutant of UpgradeFuture_right: a failure of the upgrade is reported under
\* the tag of the inner transport.
UpgradeFuture_right_Retagged(k, c) ==
    LET u == c.layers[k].upgrade
    IN  {LET ret == IF IsReadyOk(r.ret)
                    THEN ReadyOk([peer |-> u.peer_id, io |-> r.ret.val])
                    ELSE IF IsReadyErr(r.ret)
                    THEN ReadyErr(TransportUpgradeError_Transport(r.ret.err))
                    ELSE r.ret
             c2 == [c EXCEPT !.layers[k].upgrade.apply = r.inner,
                             !.log = @ \o StageCalls(k, r.events),
                             !.leaf = LastLeaf(r.events, @)]
         IN  Returned(c2, k, ret) : r \in UpgradeApply_polls(u.apply)}

\* UpgradeFuture::poll, Either::Right arm: the UpgradeApply is polled.
UpgradeFuture_right(k, c) ==
    LET u == c.layers[k].upgrade
    IN  {LET ret == IF IsReadyOk(r.ret)
                    THEN ReadyOk([peer |-> u.peer_id, io |-> r.ret.val])
                    ELSE IF IsReadyErr(r.ret)
                    THEN ReadyErr(TransportUpgradeError_Upgrade(r.ret.err))
                    ELSE r.ret
             c2 == [c EXCEPT !.layers[k].upgrade.apply = r.inner,
                             !.log = @ \o StageCalls(k, r.events),
                             !.leaf = LastLeaf(r.events, @)]
         IN  Returned(c2, k, ret) : r \in UpgradeApply_polls(u.apply)}

\* Mutant of UpgradeFuture_left: a failure of inner_fut does not stop the
\* future; the upgrade is applied to the raw stream.
UpgradeFuture_left_IgnoresError(k, r) ==
    IF r.ret.tag = "Pending" \/ r.ret.tag = "Panic"
    THEN {r}
    ELSE LET l == r.c.layers[k]
             io == IF r.ret.ok THEN r.ret.val.io ELSE r.c.io
             id == IF r.ret.ok THEN r.ret.val.peer ELSE "p1"
             s == UpgradeFuture_apply(l.role, io, l.upgrade.up.v)
             c2 == [r.c EXCEPT !.layers[k].upgrade =
                                   [variant |-> "Right", peer_id |-> id, apply |-> s],
                               !.log = Append(@, EvStart(k, s))]
         IN  UpgradeFuture_right(k, c2)

\* UpgradeFuture::poll, Either::Left arm, given what inner_fut returned.
UpgradeFuture_left(k, r) ==
    IF r.ret.tag = "Pending" \/ r.ret.tag = "Panic"
    THEN {r}
    ELSE IF ~r.ret.ok
    THEN {Returned(r.c, k, ReadyErr(TransportUpgradeError_Transport(r.ret.err)))}
    ELSE LET l == r.c.layers[k]
         IN  IF ~l.upgrade.up.some
             THEN {[c |-> r.c, ret |-> Panicked]}
             ELSE LET s == UpgradeFuture_apply(l.role, r.ret.val.io, l.upgrade.up.v)
                      c2 == [r.c EXCEPT !.layers[k].upgrade =
                                            [variant |-> "Right",
                                             peer_id |-> r.ret.val.peer,
                                             apply |-> s],
                                        !.log = Append(@, EvStart(k, s))]
                  IN  UpgradeFuture_right(k, c2)

\* MapFuture::poll under boxed()'s map_err(box_err), given what the inner
\* future returned.
MapFuture_poll(k, r) ==
    IF r.ret.tag = "Pending" \/ r.ret.tag = "Panic"
    THEN {r}
    ELSE IF ~r.ret.ok
    THEN {Returned(r.c, k, ReadyErr(box_err(r.ret.err)))}
    ELSE IF ~r.c.layers[k].args.some
    THEN {[c |-> r.c, ret |-> Panicked]}
    ELSE {Returned([r.c EXCEPT !.layers[k].args = None], k,
                   ReadyOk(Boxed_closure(r.ret.val)))}

\* Mutant of Map_poll: f is applied to the inner future's error as well.
Map_poll_MapsError(k, r) ==
    IF r.ret.tag = "Pending" \/ r.ret.tag = "Panic"
    THEN {r}
    ELSE LET l == r.c.layers[k]
         IN  IF ~l.args.some
             THEN {[c |-> r.c, ret |-> Panicked]}
             ELSE LET p == l.args.v.connected_point
                      x == IF r.ret.ok THEN r.ret.val ELSE r.ret.err
                      c2 == [r.c EXCEPT !.layers[k].args = None,
                                        !.log = Append(@, EvFnCall(k, x, p))]
                  IN  {Returned(c2, k, IF r.ret.ok THEN ReadyOk(MapFn(x, p))
                                       ELSE ReadyErr(MapFn(x, p)))}

\* MapFuture::poll of a plain map(f), given what the inner future returned.
Map_poll(k, r) ==
    IF r.ret.tag = "Pending" \/ r.ret.tag = "Panic"
    THEN {r}
    ELSE IF ~r.ret.ok
    THEN {Returned(r.c, k, ReadyErr(r.ret.err))}
    ELSE LET l == r.c.layers[k]
         IN  IF ~l.args.some
             THEN {[c |-> r.c, ret |-> Panicked]}
             ELSE LET p == l.args.v.connected_point
                      c2 == [r.c EXCEPT !.layers[k].args = None,
                                        !.log = Append(@, EvFnCall(k, r.ret.val, p))]
                  IN  {Returned(c2, k, ReadyOk(MapFn(r.ret.val, p)))}

\* Mutant of MapErr_poll: f is applied to whatever the inner future
\* resolved with.
MapErr_poll_MapsOutput(k, r) ==
    IF r.ret.tag = "Pending" \/ r.ret.tag = "Panic"
    THEN {r}
    ELSE LET c2 == [r.c EXCEPT !.layers[k].f = None]
         IN  IF ~r.c.layers[k].f.some
             THEN {[c |-> r.c, ret |-> Panicked]}
             ELSE IF r.ret.ok
             THEN {Returned([c2 EXCEPT !.log = Append(@, EvFnCall(k, r.ret.val, None))],
                            k, ReadyOk(MapErrFn(r.ret.val)))}
             ELSE {Returned([c2 EXCEPT !.log = Append(@, EvFnCall(k, r.ret.err, None))],
                            k, ReadyErr(MapErrFn(r.ret.err)))}

\* futures' MapErr<Fut, F>::poll, given what the inner future returned: f is
\* taken when the inner future is ready, and a later poll finds it gone.
MapErr_poll(k, r) ==
    IF r.ret.tag = "Pending" \/ r.ret.tag = "Panic"
    THEN {r}
    ELSE LET c2 == [r.c EXCEPT !.layers[k].f = None]
         IN  IF ~r.c.layers[k].f.some
             THEN {[c |-> r.c, ret |-> Panicked]}
             ELSE IF r.ret.ok
             THEN {Returned(c2, k, r.ret)}
             ELSE {Returned([c2 EXCEPT !.log = Append(@, EvFnCall(k, r.ret.err, None))],
                            k, ReadyErr(MapErrFn(r.ret.err)))}

\* Mutant of Box_poll: the inner future's output is lost and an error
\* returned.
Box_poll_LosesOutput(k, r) ==
    IF r.ret.tag = "Pending" \/ r.ret.tag = "Panic"
    THEN {r}
    ELSE LET c2 == [r.c EXCEPT !.layers[k].f = None]
         IN  IF ~r.c.layers[k].f.some
             THEN {[c |-> r.c, ret |-> Panicked]}
             ELSE IF r.ret.ok
             THEN {Returned(c2, k, ReadyErr(box_err([type |-> "Lost"])))}
             ELSE {Returned(c2, k, ReadyErr(box_err(r.ret.err)))}

\* The dialer and listener-upgrade futures of boxed(T): the inner future
\* under map_err(box_err), pinned in a box.
Box_poll(k, r) ==
    IF r.ret.tag = "Pending" \/ r.ret.tag = "Panic"
    THEN {r}
    ELSE LET c2 == [r.c EXCEPT !.layers[k].f = None]
         IN  IF ~r.c.layers[k].f.some
             THEN {[c |-> r.c, ret |-> Panicked]}
             ELSE IF r.ret.ok
             THEN {Returned(c2, k, r.ret)}
             ELSE {Returned(c2, k, ReadyErr(box_err(r.ret.err)))}

\* One poll of the future of layer k of connection c (layer 0 is the base
\* transport's future): every way it can go, each with the connection it
\* leaves and the value it returns.
RECURSIVE Layer_poll(_, _, _)
Layer_poll(stack, k, c) ==
    IF k = 0 THEN Base_poll(c)
    ELSE IF stack[k] \in {"authenticate", "multiplex"}
    THEN IF c.layers[k].inner = "Left"
         THEN UNION {AndThenFuture_left(k, r) : r \in Layer_poll(stack, k - 1, c)}
         ELSE AndThenFuture_right(k, c)
    ELSE IF stack[k] = "apply"
    THEN IF c.layers[k].upgrade.variant = "Left"
         THEN UNION {UpgradeFuture_left(k, r) : r \in Layer_poll(stack, k - 1, c)}
         ELSE UpgradeFuture_right(k, c)
    ELSE IF stack[k] = "and_then"
    THEN IF c.layers[k].inner = "Left"
         THEN UNION {AndThenFuture_left(k, r) : r \in Layer_poll(stack, k - 1, c)}
         ELSE AndThenFuture_right(k, c)
    ELSE IF stack[k] = "map"
    THEN UNION {Map_poll(k, r) : r \in Layer_poll(stack, k - 1, c)}
    ELSE IF stack[k] = "map_err"
    THEN UNION {MapErr_poll(k, r) : r \in Layer_poll(stack, k - 1, c)}
    ELSE IF stack[k] = "box"
    THEN UNION {Box_poll(k, r) : r \in Layer_poll(stack, k - 1, c)}
    ELSE UNION {MapFuture_poll(k, r) : r \in Layer_poll(stack, k - 1, c)}

-----------------------------------------------------------------------------
(* Specification SpecPipe: connections through a built transport *)

NotPolled == [tag |-> "NotPolled"]

\* The future of a new connection: `via` is "connect" or "incoming".
NewConn(via, io, layers) ==
    [via |-> via, io |-> io, base |-> "pending", layers |-> layers,
     log |-> <<>>, ret |-> NotPolled, leaf |-> NotPolled]

InitPipe ==
    /\ UaIdle
    /\ NegIdle
    /\ LsIdle
    /\ \E n \in 0..MaxApply : pipeline = Pipeline(n)
    /\ conns = <<>>

\* A connection future together with the point it connects, kept for the
\* history.
NewConnAt(via, io, layers, point) ==
    [via |-> via, io |-> io, base |-> "pending", layers |-> layers,
     log |-> <<>>, ret |-> NotPolled, leaf |-> NotPolled, point |-> point]

\* transport.connect(addr) succeeds and returns the dialer future.
Connect ==
    /\ Len(conns) < Len(RawStreams)
    /\ conns' = Append(conns,
                       NewConn("connect", RawStreams[Len(conns) + 1],
                               [k \in DOMAIN pipeline |->
                                   Layer_connect(pipeline[k], "remote")]))
    /\ UNCHANGED <<pipeline, uaVars, negVars, lsVars>>

\* The listener yields an Incoming event with its listener-upgrade future.
Incoming ==
    /\ Len(conns) < Len(RawStreams)
    /\ conns' = Append(conns,
                       NewConn("incoming", RawStreams[Len(conns) + 1],
                               [k \in DOMAIN pipeline |->
                                   Layer_incoming(pipeline[k], "local", "remote")]))
    /\ UNCHANGED <<pipeline, uaVars, negVars, lsVars>>

\* The owner of connection i polls its future, until it has returned Ready.
PollConn ==
    /\ \E i \in DOMAIN conns :
          /\ conns[i].ret.tag \in {"NotPolled", "Pending"}
          /\ \E r \in Layer_poll(pipeline, Len(pipeline), conns[i]) :
                conns' = [conns EXCEPT ![i] = [r.c EXCEPT !.ret = r.ret]]
    /\ UNCHANGED <<pipeline, uaVars, negVars, lsVars>>

NextPipe == Connect \/ Incoming \/ PollConn

SpecPipe == InitPipe /\ [][NextPipe]_vars

-----------------------------------------------------------------------------
(* Listeners and the synchronous calls of a stacked transport *)

Addrs == {"a1", "a2"}

\* ListenerEvent<T, E>; the upgrade future is the stack of layer futures
\* over the base transport's listener-upgrade future.
Listened(addr) == [ev |-> "Listened", addr |-> addr]
IncomingEvent(local_addr, remote_addr, upgrade) ==
    [ev |-> "Incoming", local_addr |-> local_addr, remote_addr |-> remote_addr,
     upgrade |-> upgrade]
Closed(result) == [ev |-> "Closed", result |-> result]
ErrorEvent(err) == [ev |-> "Error", err |-> err]
ResultOk == [ok |-> TRUE]
ResultErr(e) == [ok |-> FALSE, err |-> e]

\* What a poll_next returns besides an event: Ready(None) and Pending.
StreamEnd == [ev |-> "None"]
StreamPending == [ev |-> "Pending"]

\* ListenerEvent::map_upgrade
ListenerEvent_map_upgrade(event, F(_)) ==
    IF event.ev = "Incoming" THEN [event EXCEPT !.upgrade = F(@)] ELSE event

\* ListenerEvent::map_err
ListenerEvent_map_err(event, F(_)) ==
    IF event.ev = "Closed"
    THEN IF event.result.ok THEN event ELSE Closed(ResultErr(F(event.result.err)))
    ELSE IF event.ev = "Error" THEN ErrorEvent(F(event.err))
    ELSE event

\* Mutant of Listener_event: the Incoming event is rebuilt with the two
\* addresses exchanged.
Listener_event_SwapsAddrs(kind, event) ==
    LET swapped ==
            IF event.ev = "Incoming"
            THEN IncomingEvent(event.remote_addr, event.local_addr, event.upgrade)
            ELSE event
        wrapped ==
            ListenerEvent_map_upgrade(swapped,
                LAMBDA up : Append(up, Layer_incoming(kind, event.local_addr,
                                                      event.remote_addr)))
    IN  IF kind = "map" THEN wrapped
        ELSE IF kind \in {"and_then", "authenticate", "multiplex"}
        THEN ListenerEvent_map_err(wrapped, Either_Left)
        ELSE IF kind = "map_err"
        THEN ListenerEvent_map_err(wrapped, MapErrFn)
        ELSE IF kind = "apply"
        THEN ListenerEvent_map_err(wrapped, TransportUpgradeError_Transport)
        ELSE ListenerEvent_map_err(wrapped, box_err)

\* The event a combinator's listener makes of an event of its inner listener.
Listener_event(kind, event) ==
    LET wrapped ==
            ListenerEvent_map_upgrade(event,
                LAMBDA up : Append(up, Layer_incoming(kind, event.local_addr,
                                                      event.remote_addr)))
    IN  IF kind = "map" THEN wrapped
        ELSE IF kind \in {"and_then", "authenticate", "multiplex"}
        THEN ListenerEvent_map_err(wrapped, Either_Left)
        ELSE IF kind = "map_err"
        THEN ListenerEvent_map_err(wrapped, MapErrFn)
        ELSE IF kind = "apply"
        THEN ListenerEvent_map_err(wrapped, TransportUpgradeError_Transport)
        ELSE ListenerEvent_map_err(wrapped, box_err)

\* Mutant of Listener_poll_next: a Closed event of the inner listener is
\* kept back.
Listener_poll_next_DropsClosed(kind, inner) ==
    IF inner.ev \in {"Pending", "Closed"} THEN StreamPending
    ELSE IF inner.ev = "None" THEN StreamEnd
    ELSE Listener_event(kind, inner)

\* poll_next of a combinator's listener, given what its inner listener returned.
Listener_poll_next(kind, inner) ==
    IF inner.ev = "Pending" THEN StreamPending
    ELSE IF inner.ev = "None" THEN StreamEnd
    ELSE Listener_event(kind, inner)

\* What the listener of each layer returns when the base listener returns
\* `base`: layer 0 is the base, layer Len(stack) the listener the caller polls.
RECURSIVE Listener_items(_, _, _)
Listener_items(stack, k, base) ==
    IF k = 0 THEN <<base>>
    ELSE LET below == Listener_items(stack, k - 1, base)
         IN  Append(below, Listener_poll_next(stack[k], below[k]))

\* Mutant of Connect_err: map_err's connect returns the inner call's error
\* as it is.
Connect_err_Unmapped(kind, e) ==
    IF kind \in {"map", "map_err"} THEN e
    ELSE IF kind \in {"and_then", "authenticate", "multiplex"} THEN Either_Left(e)
    ELSE IF kind = "apply" THEN TransportUpgradeError_Transport(e)
    ELSE box_err(e)

\* The error a combinator's connect / listen returns when the inner call fails.
Connect_err(kind, e) ==
    IF kind = "map" THEN e
    ELSE IF kind \in {"and_then", "authenticate", "multiplex"} THEN Either_Left(e)
    ELSE IF kind = "map_err" THEN MapErrFn(e)
    ELSE IF kind = "apply" THEN TransportUpgradeError_Transport(e)
    ELSE box_err(e)
\* Mutant of Listen_err: the error of a boxed transport's listen is boxed
\* twice.
Listen_err_DoubleBoxed(kind, e) ==
    IF kind = "map" THEN e
    ELSE IF kind \in {"and_then", "authenticate", "multiplex"} THEN Either_Left(e)
    ELSE IF kind = "map_err" THEN MapErrFn(e)
    ELSE IF kind = "apply" THEN TransportUpgradeError_Transport(e)
    ELSE box_err(box_err(e))

\* The error a combinator's listen returns when the inner call fails.
Listen_err(kind, e) ==
    IF kind = "map" THEN e
    ELSE IF kind \in {"and_then", "authenticate", "multiplex"} THEN Either_Left(e)
    ELSE IF kind = "map_err" THEN MapErrFn(e)
    ELSE IF kind = "apply" THEN TransportUpgradeError_Transport(e)
    ELSE box_err(e)

\* The error at every layer of a failed connect (call = "connect") or listen.
RECURSIVE Sync_errs(_, _, _, _)
Sync_errs(call, stack, k, e) ==
    IF k = 0 THEN <<e>>
    ELSE LET below == Sync_errs(call, stack, k - 1, e)
         IN  Append(below, IF call = "connect" THEN Connect_err(stack[k], below[k])
                           ELSE Listen_err(stack[k], below[k]))

\* What a base listener may return from one poll_next.
BaseItems ==
    {Listened(a) : a \in Addrs}
    \cup {IncomingEvent("a1", "a2", <<>>), IncomingEvent("a2", "a1", <<>>)}
    \cup {Closed(ResultOk)} \cup {Closed(ResultErr(e)) : e \in TransportErrors}
    \cup {ErrorEvent(e) : e \in TransportErrors}
    \cup {StreamEnd, StreamPending}

-----------------------------------------------------------------------------
(* Specification SpecListen: a stacked transport, its listener, one connection *)

GenericKinds == {"map", "and_then", "map_err"}
GenericStacks == {<<a>> : a \in GenericKinds} \cup {<<a, b>> : a, b \in GenericKinds}
\* The transports of this specification: the plain combinators alone and in
\* pairs, and the builder's pipeline without and with an apply step.
ListenStacks == GenericStacks \cup {Pipeline(0), Pipeline(1)}

InitListen ==
    /\ UaIdle
    /\ NegIdle
    /\ LsIdle
    /\ pipeline \in ListenStacks
    /\ conns = <<>>

\* transport.listen(addr): the base transport's listen succeeds or fails.
Listen ==
    /\ lsn.state = "none"
    /\ \/ /\ lsn' = [state |-> "listening"]
          /\ UNCHANGED lsSync
       \/ /\ \E e \in TransportErrors :
                lsSync' = lsSync \cup
                    {[call |-> "listen",
                      errs |-> Sync_errs("listen", pipeline, Len(pipeline), e)]}
          /\ lsn' = [state |-> "failed"]
    /\ UNCHANGED <<lsHist, pipeVars, uaVars, negVars>>

\* transport.connect(addr) fails synchronously in the base transport.
ConnectFails ==
    /\ \E e \in TransportErrors :
          lsSync' = lsSync \cup
              {[call |-> "connect",
                errs |-> Sync_errs("connect", pipeline, Len(pipeline), e)]}
    /\ UNCHANGED <<lsn, lsHist, pipeVars, uaVars, negVars>>

\* transport.connect(addr) returns the dialer future; the caller keeps one
\* connection future at a time.
ConnectOk ==
    /\ \E addr \in Addrs :
          conns' = <<NewConnAt("connect", RawStreams[1],
                               [k \in DOMAIN pipeline |->
                                   Layer_connect(pipeline[k], addr)],
                               ConnectedPoint_Dialer(addr))>>
    /\ UNCHANGED <<pipeline, lsVars, uaVars, negVars>>

\* The caller polls the listener; an Incoming event hands over a new
\* connection future, which replaces the one the caller held.
PollListener ==
    /\ lsn.state = "listening"
    /\ Len(lsHist) < MaxEvents
    /\ \E base \in BaseItems :
          LET items == Listener_items(pipeline, Len(pipeline), base)
              out == items[Len(items)]
          IN  /\ lsHist' = IF base.ev = "Pending" THEN lsHist
                           ELSE Append(lsHist, items)
              /\ lsn' = IF base.ev = "None" THEN [lsn EXCEPT !.state = "ended"]
                        ELSE lsn
              /\ conns' = IF out.ev = "Incoming"
                          THEN <<NewConnAt("incoming", RawStreams[1], out.upgrade,
                                           ConnectedPoint_Listener(base.local_addr,
                                                                   base.remote_addr))>>
                          ELSE conns
    /\ UNCHANGED <<pipeline, lsSync, uaVars, negVars>>

\* The transports boxed(T), for T the base transport or one combinator over
\* it.
BoxedStacks == {<<"box">>} \cup {<<kind, "box">> : kind \in GenericKinds}

InitBoxed ==
    /\ UaIdle
    /\ NegIdle
    /\ LsIdle
    /\ pipeline \in BoxedStacks
    /\ conns = <<>>

NextListen == Listen \/ ConnectFails \/ ConnectOk \/ PollListener \/ PollConn

SpecListen == InitListen /\ [][NextListen]_vars

\* The same calls on a boxed transport.
SpecBoxed == InitBoxed /\ [][NextListen]_vars

-----------------------------------------------------------------------------
(* Specification SpecS2: the two ends of a connection whose upgrades share   *)
(* no protocol, and the listener that accepted it                            *)

\* The upgrade each end gives to apply().
S2Upgrades ==
    [side \in Sides |->
        IF side = "dialer"
        THEN SelectUpgrade(ReadyUpgrade("/a"), ReadyUpgrade("/b"))
        ELSE ReadyUpgrade("/c")]

\* What the listener of every layer returns when the base listener returns
\* `base`; the UpgradeFuture of an Incoming event holds the listener's upgrade.
S2_items(base) ==
    LET items == Listener_items(pipeline, Len(pipeline), base)
    IN  [k \in DOMAIN items |->
            ListenerEvent_map_upgrade(items[k],
                LAMBDA ups : [j \in DOMAIN ups |->
                                 IF ups[j].layer = "UpgradeFuture"
                                 THEN [ups[j] EXCEPT !.upgrade.up =
                                                         Some(S2Upgrades["listener"])]
                                 ELSE ups[j]])]

\* The step whose upgrade is negotiated: apply (WithUpgrade) or authenticate
\* (and_then).
S2Steps == {"apply", "authenticate"}

\* The connection is established: the dialer holds its UpgradeApply, the
\* listener has yielded the Incoming event and its caller holds the
\* UpgradeApply of that event's future.
InitS2 ==
    /\ UaIdle
    /\ pipeline \in {<<kind>> : kind \in S2Steps}
    /\ conns = <<>>
    /\ negUp = S2Upgrades
    /\ negUA = [side \in Sides |->
                   UpgradeFuture_apply(IF side = "dialer" THEN "Dialer" ELSE "Listener",
                                       RawStreams[1], negUp[side])]
    /\ negWire = [side \in Sides |-> <<>>]
    /\ negLog = [side \in Sides |-> <<>>]
    /\ lsn = [state |-> "listening"]
    /\ lsHist = <<S2_items(IncomingEvent("a1", "a2", <<>>))>>
    /\ lsSync = {}

\* Mutant of PollListenerS2: the listener yields nothing once the upgrade
\* of the connection it accepted has returned.
PollListenerS2_StopsAfterFailure ==
    /\ lsn.state = "listening"
    /\ Len(lsHist) < MaxEvents + 1
    /\ ReturnsOf("listener") = {}
    /\ \E base \in BaseItems \ {StreamPending} :
          LET items == S2_items(base)
          IN  /\ lsHist' = Append(lsHist, items)
              /\ lsn' = IF base.ev = "None" THEN [lsn EXCEPT !.state = "ended"]
                        ELSE lsn
              /\ negLog' = [negLog EXCEPT !["listener"] =
                               Append(@, [ev |-> "yield",
                                          item |-> items[Len(items)].ev])]
    /\ UNCHANGED <<negUp, negUA, negWire, lsSync, uaVars, pipeVars>>

\* The listener's caller polls the listener again.
PollListenerS2 ==
    /\ lsn.state = "listening"
    /\ Len(lsHist) < MaxEvents + 1
    /\ \E base \in BaseItems \ {StreamPending} :
          LET items == S2_items(base)
          IN  /\ lsHist' = Append(lsHist, items)
              /\ lsn' = IF base.ev = "None" THEN [lsn EXCEPT !.state = "ended"]
                        ELSE lsn
              /\ negLog' = [negLog EXCEPT !["listener"] =
                               Append(@, [ev |-> "yield",
                                          item |-> items[Len(items)].ev])]
    /\ UNCHANGED <<negUp, negUA, negWire, lsSync, uaVars, pipeVars>>

\* NegPoll leaves the listener alone.
PollSideS2(side) == NegPoll(side)

NextS2 == PollSideS2("dialer") \/ PollSideS2("listener") \/ PollListenerS2

SpecS2 == InitS2 /\ [][NextS2]_vars

\* Both owners keep polling their future until it returns Ready.
SpecS2Fair ==
    SpecS2 /\ WF_vars(PollSideS2("dialer")) /\ WF_vars(PollSideS2("listener"))

-----------------------------------------------------------------------------
(* Specification SpecTcp: the TCP listener, alone or under the WebSocket     *)
(* listener                                                                  *)

\* The transports: TCP alone, or WebSocket over TCP.
TcpStacks == {<<>>, <<"ws">>}

\* The number of events the TCP listener is polled for.
TcpEvents == MaxEvents + 2

\* tungstenite's Error::from(io::Error)
WsError_from(e) == [type |-> "ws::Error", io |-> e]

\* The listener-upgrade future of the TCP transport: future::ok(stream).
TcpUpgrade == <<[layer |-> "Ready", ok |-> TRUE]>>

\* The address that asks the system to choose the port (port 0), and the
\* addresses a caller may pass to listen.
AnyPortAddr == "a0"
ListenAddrs == Addrs \cup {AnyPortAddr}

\* The addresses a socket bound to addr may end up with: addr itself, or for
\* port 0 whichever port the system chooses.
BoundAddrs(addr) == IF addr = AnyPortAddr THEN Addrs ELSE {addr}

\* TcpListener::from_std(socket): the listener with the address it is bound to.
TcpListener_from_std(local_addr) == [local_addr |-> local_addr]

\* ListenStream::new
ListenStream_new(listener, listener_addr) ==
    [state |-> "listening", listener_addr |-> listener_addr,
     listener |-> listener,
     pending_event |-> Some(Listened(listener_addr))]

\* What poll_accept of the TcpListener may return: a connection from a
\* remote address, an error, or Pending.
AcceptOutcomes ==
    {[tag |-> "Ok", remote_addr |-> a] : a \in Addrs}
    \cup {[tag |-> "Err", err |-> e] : e \in TransportErrors}
    \cup {[tag |-> "Pending"]}

\* Mutant of ListenStream_poll_next: the listener is asked for a connection
\* first, and the pending event is returned when there is none.
ListenStream_poll_next_AcceptFirst(ls, accept) ==
    IF accept.tag = "Ok"
    THEN [ls |-> ls,
          item |-> IncomingEvent(ls.listener_addr, accept.remote_addr, TcpUpgrade)]
    ELSE IF accept.tag = "Err"
    THEN [ls |-> ls, item |-> ErrorEvent(accept.err)]
    ELSE IF ls.pending_event.some
    THEN [ls |-> [ls EXCEPT !.pending_event = None], item |-> ls.pending_event.v]
    ELSE [ls |-> ls, item |-> StreamPending]

\* <airio_tcp::ListenStream as Stream>::poll_next, given what poll_accept
\* returns if it is called.
ListenStream_poll_next(ls, accept) ==
    IF ls.pending_event.some
    THEN [ls |-> [ls EXCEPT !.pending_event = None], item |-> ls.pending_event.v]
    ELSE IF accept.tag = "Ok"
    THEN [ls |-> ls,
          item |-> IncomingEvent(ls.listener_addr, accept.remote_addr, TcpUpgrade)]
    ELSE IF accept.tag = "Err"
    THEN [ls |-> ls, item |-> ErrorEvent(accept.err)]
    ELSE [ls |-> ls, item |-> StreamPending]

\* <airio_ws::ListenStream as Stream>::poll_next, given what the TCP listener
\* returned.
WsListenStream_poll_next(inner) ==
    IF inner.ev = "Pending" THEN StreamPending
    ELSE IF inner.ev = "None" THEN StreamEnd
    ELSE ListenerEvent_map_err(
             ListenerEvent_map_upgrade(inner,
                 LAMBDA up : Append(up, [layer |-> "WsAccept"])),
             WsError_from)

\* The items of the TCP listener and of the listeners over it.
Tcp_items(stack, item) ==
    IF stack = <<>> THEN <<item>> ELSE <<item, WsListenStream_poll_next(item)>>

InitTcp ==
    /\ UaIdle
    /\ NegIdle
    /\ LsIdle
    /\ pipeline \in TcpStacks
    /\ conns = <<>>

\* listen(addr) of the TCP transport, directly or through the WebSocket
\* transport: the socket is bound and the ListenStream made, or an error is
\* returned.
TcpListen ==
    /\ lsn.state = "none"
    /\ \E addr \in ListenAddrs :
          \/ /\ \E bound \in BoundAddrs(addr) :
                   lsn' = ListenStream_new(TcpListener_from_std(bound), addr)
             /\ UNCHANGED lsSync
          \/ /\ \E e \in TransportErrors :
                   lsSync' = lsSync \cup
                       {[call |-> "listen",
                         errs |-> IF pipeline = <<>> THEN <<e>>
                                  ELSE <<e, WsError_from(e)>>]}
             /\ lsn' = [state |-> "failed"]
    /\ UNCHANGED <<lsHist, pipeVars, uaVars, negVars>>

\* Mutant of TcpPollNext: a failed accept closes the listener.
TcpPollNext_ClosesOnError ==
    /\ lsn.state = "listening"
    /\ Len(lsHist) < TcpEvents
    /\ \E accept \in AcceptOutcomes :
          LET r == ListenStream_poll_next(lsn, accept)
          IN  /\ lsn' = IF r.item.ev = "Error" THEN [r.ls EXCEPT !.state = "closed"]
                        ELSE r.ls
              /\ lsHist' = IF r.item.ev = "Pending" THEN lsHist
                           ELSE Append(lsHist, Tcp_items(pipeline, r.item))
    /\ UNCHANGED <<lsSync, pipeVars, uaVars, negVars>>

\* The caller polls the listener.
TcpPollNext ==
    /\ lsn.state = "listening"
    /\ Len(lsHist) < TcpEvents
    /\ \E accept \in AcceptOutcomes :
          LET r == ListenStream_poll_next(lsn, accept)
          IN  /\ lsn' = r.ls
              /\ lsHist' = IF r.item.ev = "Pending" THEN lsHist
                           ELSE Append(lsHist, Tcp_items(pipeline, r.item))
    /\ UNCHANGED <<lsSync, pipeVars, uaVars, negVars>>

NextTcp == TcpListen \/ TcpPollNext

SpecTcp == InitTcp /\ [][NextTcp]_vars

-----------------------------------------------------------------------------
(* Specification SpecQuic: the QUIC listener *)

\* Error::from of the QUIC transport
QuicError_from(e) == [type |-> "quic::Error", from |-> e]

\* quinn's errors of accepting a connection.
QuicConnectionErrors == {[type |-> "ConnectionError", e |-> "refused"]}

\* The listener-upgrade future of the QUIC transport: Connecting::new.
QuicUpgrade == <<[layer |-> "Connecting"]>>

\* A poll_next that unwound with a panic.
StreamPanic == [ev |-> "Panic"]

\* The ListenerStream that Config::listen returns: local_addr is the address
\* of the bound socket, accept the future of endpoint.accept().
ListenerStream_new(local_addr) ==
    [state |-> "listening", local_addr |-> local_addr, accept |-> "armed"]

\* What a poll of the accept future may return: a connection attempt that
\* incoming.accept() takes or refuses, None when the endpoint is closed, or
\* Pending.
QuicAcceptOutcomes ==
    {[tag |-> "Some", accepted |-> TRUE, remote_addr |-> a] : a \in Addrs}
    \cup {[tag |-> "Some", accepted |-> FALSE, err |-> e] : e \in QuicConnectionErrors}
    \cup {[tag |-> "None"], [tag |-> "Pending"]}

\* <ListenerStream as Stream>::poll_next, given what the accept future
\* returns.  After Ready(None) the loop polls the finished future again, and
\* a finished async block panics when polled.
ListenerStream_poll_next(ls, accept) ==
    IF accept.tag = "Some"
    THEN [ls |-> ls,
          item |-> IF accept.accepted
                   THEN IncomingEvent(ls.local_addr, accept.remote_addr, QuicUpgrade)
                   ELSE ErrorEvent(QuicError_from(accept.err))]
    ELSE IF accept.tag = "None"
    THEN [ls |-> [ls EXCEPT !.state = "panicked", !.accept = "finished"],
          item |-> StreamPanic]
    ELSE [ls |-> ls, item |-> StreamPending]

InitQuic ==
    /\ UaIdle
    /\ NegIdle
    /\ LsIdle
    /\ pipeline = <<>>
    /\ conns = <<>>

\* Config::listen(addr) of the QUIC transport: the socket is bound and the
\* ListenerStream made, or an error is returned.
QuicListen ==
    /\ lsn.state = "none"
    /\ \E addr \in ListenAddrs :
          \/ /\ \E bound \in BoundAddrs(addr) : lsn' = ListenerStream_new(bound)
             /\ UNCHANGED lsSync
          \/ /\ \E e \in TransportErrors :
                   lsSync' = lsSync \cup {[call |-> "listen",
                                           errs |-> <<QuicError_from(e)>>]}
             /\ lsn' = [state |-> "failed"]
    /\ UNCHANGED <<lsHist, pipeVars, uaVars, negVars>>

\* The caller polls the listener.
QuicPollNext ==
    /\ lsn.state = "listening"
    /\ Len(lsHist) < TcpEvents
    /\ \E accept \in QuicAcceptOutcomes :
          LET r == ListenerStream_poll_next(lsn, accept)
          IN  /\ lsn' = r.ls
              /\ lsHist' = IF r.item.ev = "Pending" THEN lsHist
                           ELSE Append(lsHist, <<r.item>>)
    /\ UNCHANGED <<lsSync, pipeVars, uaVars, negVars>>

NextQuic == QuicListen \/ QuicPollNext

SpecQuic == InitQuic /\ [][NextQuic]_vars

-----------------------------------------------------------------------------
(* Properties of the pipeline (specification SpecPipe) *)

ConnIdx == DOMAIN conns
LogIdx(i) == DOMAIN conns[i].log
LogAt(i, j) == conns[i].log[j]
IsStart(i, j) == LogAt(i, j).ev = "start"
IsLogEv(i, j, name) == LogAt(i, j).ev = name
UpgradeStages == {k \in DOMAIN pipeline : pipeline[k] # "boxed"}
EntryFor(via) == IF via = "connect" THEN "outbound" ELSE "inbound"
FinishedOk(i) == IsReadyOk(conns[i].ret)

\* C8: the stages of a connection start in the order authenticate, apply*,
\* multiplex; a stage starts (its UpgradeApply is made and its negotiation
\* can begin) only after the stage before it has completed successfully,
\* and after a failure no stage starts.
C8_UpgradeOrder ==
    \A i \in ConnIdx : \A j \in LogIdx(i) : IsStart(i, j) =>
        LET k == LogAt(i, j).stage
        IN  /\ k \in UpgradeStages
            /\ k = 1 => pipeline[k] = "authenticate"
            /\ k > 1 =>
                  /\ pipeline[k] \in {"apply", "multiplex"}
                  /\ pipeline[k - 1] \in {"authenticate", "apply"}
                  /\ \E h \in 1..(j - 1) :
                        IsLogEv(i, h, "output") /\ LogAt(i, h).stage = k - 1
            /\ \A h \in 1..(j - 1) :
                  /\ ~IsLogEv(i, h, "error")
                  /\ IsStart(i, h) => LogAt(i, h).stage < k
                  /\ LogAt(i, h).stage <= k
            /\ pipeline[k] = "multiplex" =>
                  \A h \in LogIdx(i) : h > j => ~IsStart(i, h)

\* A connection through authenticate, apply, multiplex that completed.
C8_Witness ==
    \E i \in ConnIdx :
        /\ FinishedOk(i)
        /\ "apply" \in Range(pipeline)
        /\ \A k \in UpgradeStages :
              \E j \in LogIdx(i) : IsStart(i, j) /\ LogAt(i, j).stage = k

\* C9: at every stage a connection obtained by connect uses the outbound
\* entry of UpgradeApply and one obtained from an Incoming event the inbound
\* entry, so the role is the same at all stages of a connection.
C9_RoleFollowsOrigin ==
    \A i \in ConnIdx : \A j \in LogIdx(i) :
        (IsStart(i, j) \/ IsLogEv(i, j, "call")) =>
            LogAt(i, j).entry = EntryFor(conns[i].via)

\* An incoming and a dialed connection that both ran every stage.
C9_Witness ==
    /\ "apply" \in Range(pipeline)
    /\ \E i, h \in ConnIdx :
          /\ conns[i].via = "incoming"
          /\ conns[h].via = "connect"
          /\ \A k \in UpgradeStages :
                /\ \E j \in LogIdx(i) : IsLogEv(i, j, "call") /\ LogAt(i, j).stage = k
                /\ \E j \in LogIdx(h) : IsLogEv(h, j, "call") /\ LogAt(h, j).stage = k

\* The PeerIds the authentication upgrade of connection i has produced.
AuthPeers(i) ==
    {LogAt(i, j).val.peer :
        j \in {h \in LogIdx(i) : IsLogEv(i, h, "upgraded") /\ LogAt(i, h).stage = 1}}

\* C10: the PeerId in the output of every stage of a connection (authenticate,
\* apply, multiplex, boxed) and in its final output is the PeerId that the
\* authentication upgrade produced for that connection.
C10_PeerIdThreaded ==
    \A i \in ConnIdx :
        /\ Cardinality(AuthPeers(i)) <= 1
        /\ \A j \in LogIdx(i) : IsLogEv(i, j, "output") =>
              AuthPeers(i) = {LogAt(i, j).out.peer}
        /\ FinishedOk(i) => AuthPeers(i) = {conns[i].ret.val.peer}

\* Two completed connections whose authentication produced different PeerIds.
C10_Witness ==
    /\ "apply" \in Range(pipeline)
    /\ \E i, h \in ConnIdx :
          /\ FinishedOk(i)
          /\ FinishedOk(h)
          /\ conns[i].ret.val.peer = "p2"
          /\ conns[h].ret.val.peer = "p1"

-----------------------------------------------------------------------------
(* Properties of stacked transports (specification SpecListen) *)

StepKinds == {"authenticate", "apply", "multiplex"}
StepStages == {k \in DOMAIN pipeline : pipeline[k] \in StepKinds}
HistIdx == DOMAIN lsHist
\* The item of layer k (0 is the base listener) in the h-th yield.
ItemAt(h, k) == lsHist[h][k + 1]
\* The error of layer k (0 is the base transport) of a failed call.
SyncErrAt(rec, k) == rec.errs[k + 1]
\* The tag a step gives a failure of its inner transport and a failure of
\* its own upgrade: apply is WithUpgrade, authenticate and multiplex are
\* and_then.
InnerTag(kind, e) ==
    IF kind = "apply" THEN TransportUpgradeError_Transport(e) ELSE Either_Left(e)
UpgradeTag(kind, e) ==
    IF kind = "apply" THEN TransportUpgradeError_Upgrade(e) ELSE Either_Right(e)
\* Event j of connection i is a failure of the future below layer k.
IsInnerFailure(i, j, k) ==
    \/ k = 1 /\ IsLogEv(i, j, "base") /\ IsReadyErr(LogAt(i, j).ret)
    \/ k > 1 /\ IsLogEv(i, j, "error") /\ LogAt(i, j).stage = k - 1
InnerFailure(i, j) ==
    IF IsLogEv(i, j, "base") THEN LogAt(i, j).ret.err ELSE LogAt(i, j).err
\* The UpgradeError that UpgradeApply makes of the failure in event j.
UpgradeFailure(i, j) ==
    IF LogAt(i, j).origin = "negotiator" THEN UpgradeError_Select(LogAt(i, j).err)
    ELSE UpgradeError_Apply(LogAt(i, j).err)

\* C11 as stated: the error of every pipeline step is a TransportUpgradeError.
C11_Original ==
    \A i \in ConnIdx : \A j \in LogIdx(i) :
        (IsLogEv(i, j, "error") /\ LogAt(i, j).stage \in StepStages) =>
            LogAt(i, j).err.variant \in {"Transport", "Upgrade"}

\* C11 (amended): the error of the apply step is a TransportUpgradeError and
\* the error of the authenticate and multiplex steps is and_then's Either. A
\* failure of the inner transport (failed connect or listen, failed dialer or
\* listener-upgrade future, listener Error or Closed(Err)) comes out under
\* the first tag (Transport, Left) with its value unchanged and the step's
\* upgrade is not started; a negotiation failure comes out under the second
\* tag (Upgrade, Right) as Select and an upgrade failure as Apply; every
\* failure is reported by the step that saw it.
C11_ErrorTagging ==
    /\ \A i \in ConnIdx : \A j \in LogIdx(i) : \A k \in StepStages :
          /\ (IsLogEv(i, j, "error") /\ LogAt(i, j).stage = k) =>
                /\ j > 1
                /\ \/ /\ IsInnerFailure(i, j - 1, k)
                      /\ LogAt(i, j).err = InnerTag(pipeline[k], InnerFailure(i, j - 1))
                      /\ \A h \in LogIdx(i) : LogAt(i, h).stage = k => h = j
                   \/ /\ IsLogEv(i, j - 1, "failed")
                      /\ LogAt(i, j - 1).stage = k
                      /\ LogAt(i, j).err = UpgradeTag(pipeline[k], UpgradeFailure(i, j - 1))
          /\ (IsInnerFailure(i, j, k) \/ (IsLogEv(i, j, "failed") /\ LogAt(i, j).stage = k)) =>
                /\ j + 1 \in LogIdx(i)
                /\ IsLogEv(i, j + 1, "error")
                /\ LogAt(i, j + 1).stage = k
    /\ \A rec \in lsSync : \A k \in StepStages :
          SyncErrAt(rec, k) = InnerTag(pipeline[k], SyncErrAt(rec, k - 1))
    /\ \A h \in HistIdx : \A k \in StepStages :
          /\ ItemAt(h, k - 1).ev = "Error" =>
                ItemAt(h, k) = ErrorEvent(InnerTag(pipeline[k], ItemAt(h, k - 1).err))
          /\ (ItemAt(h, k - 1).ev = "Closed" /\ ~ItemAt(h, k - 1).result.ok) =>
                ItemAt(h, k) =
                    Closed(ResultErr(InnerTag(pipeline[k], ItemAt(h, k - 1).result.err)))

\* A transport with an apply step whose connect and listener have failed and
\* whose connection failed in the upgrade of the multiplex step.
C11_Witness ==
    /\ "apply" \in Range(pipeline)
    /\ \E rec \in lsSync : rec.call = "connect"
    /\ \E h \in HistIdx : ItemAt(h, 0).ev \in {"Error", "Closed"}
    /\ \E i \in ConnIdx : \E j \in LogIdx(i) :
          /\ IsLogEv(i, j, "failed")
          /\ pipeline[LogAt(i, j).stage] = "multiplex"
          /\ IsReadyErr(conns[i].ret)

-----------------------------------------------------------------------------
(* Properties of the mismatch scenario (specifications SpecS2, SpecS2Fair) *)

\* The items the listener of layer k returned at yield h.
S2Yields == DOMAIN lsHist

\* The side's future has returned an error that carries Select.
SelectReturned(side) ==
    /\ ReturnsOf(side) # {}
    /\ \A r \in ReturnsOf(side) : IsReadyErr(r) /\ r.err.variant = "Select"

\* Some event the listener yielded is an Error that carries an UpgradeError.
ListenerEmitsUpgradeError ==
    \E h \in S2Yields :
        LET out == ItemAt(h, Len(pipeline))
        IN  /\ out.ev = "Error"
            /\ out.err.variant \in {"Upgrade", "Right", "Select"}

\* C12 as stated: once the listener side's negotiation has failed with
\* Select and the listener has been polled as often as it will be, one of the
\* events the listener sequence emitted is Error(UpgradeError::Select).
C12_Original ==
    (SelectReturned("listener") /\ Len(lsHist) = MaxEvents + 1)
        => ListenerEmitsUpgradeError

\* The safety half of C12: neither side ever calls an upgrade entrypoint and
\* whatever a side's future returns is Err(UpgradeError::Select); every event
\* of the listener sequence is the base listener's event of the same variant,
\* an Error event carrying the base listener's error under the step's
\* inner-transport tag and never an UpgradeError; and the failed negotiation leaves the listener able to yield
\* its next event.
C12_Safety ==
    /\ \A side \in Sides :
          /\ CallsOf(side) = {}
          /\ \A r \in ReturnsOf(side) :
                IsReadyErr(r) /\ r.err.variant = "Select"
    /\ \A h \in S2Yields :
          LET base == ItemAt(h, 0)
              out  == ItemAt(h, Len(pipeline))
          IN  /\ out.ev = base.ev
              /\ out.ev = "Error" => out.err = InnerTag(pipeline[1], base.err)
    /\ ~ListenerEmitsUpgradeError
    /\ (lsn.state = "listening" /\ Len(lsHist) < MaxEvents + 1)
          => ENABLED PollListenerS2

\* C12 (amended): with the dialer offering "/a" or "/b" and the listener only
\* "/c", the dialer's future and the listener-upgrade future carried by the
\* Incoming event both resolve to Err(UpgradeError::Select); the listener
\* sequence emits no Error event for the failure and continues accepting.
C12_Mismatch ==
    /\ []C12_Safety
    /\ <>(SelectReturned("dialer") /\ SelectReturned("listener"))

\* Both futures have failed with Select and, after the listener side's
\* failure, the listener has yielded a further Incoming event.
C12_Witness ==
    /\ SelectReturned("dialer")
    /\ SelectReturned("listener")
    /\ \E i, j \in DOMAIN negLog["listener"] :
          /\ i < j
          /\ negLog["listener"][i].ev = "return"
          /\ negLog["listener"][j] = [ev |-> "yield", item |-> "Incoming"]

-----------------------------------------------------------------------------
(* Properties of the combinators (specification SpecListen) *)

\* The layers whose future is an AndThenFuture.
AndThenStages ==
    {k \in DOMAIN pipeline : pipeline[k] \in {"and_then", "authenticate", "multiplex"}}
\* Event j of connection i is the call of the map function of layer k.
IsMapCall(i, j, k) ==
    /\ LogAt(i, j).stage = k
    /\ IsLogEv(i, j, IF pipeline[k] = "and_then" THEN "fn" ELSE "start")
\* Event j of connection i is the success of the future below layer k.
IsInnerOk(i, j, k) ==
    \/ k = 1 /\ IsLogEv(i, j, "base") /\ IsReadyOk(LogAt(i, j).ret)
    \/ k > 1 /\ IsLogEv(i, j, "output") /\ LogAt(i, j).stage = k - 1
InnerOutput(i, j) ==
    IF IsLogEv(i, j, "base") THEN LogAt(i, j).ret.val ELSE LogAt(i, j).out

\* C13: the map function of an AndThenFuture is called right after its inner
\* future returned Ready(Ok(o)), with o and the connected point, and at most
\* once; when the inner future returns Ready(Err(e)) the AndThenFuture
\* resolves with Left(e), the map function is not called and no map future
\* is made.
C13_AndThenOrder ==
    \A i \in ConnIdx : \A j \in LogIdx(i) : \A k \in AndThenStages :
        /\ IsMapCall(i, j, k) =>
              /\ j > 1
              /\ IsInnerOk(i, j - 1, k)
              /\ pipeline[k] = "and_then" =>
                    /\ LogAt(i, j).arg = InnerOutput(i, j - 1)
                    /\ LogAt(i, j).p = conns[i].point
              /\ \A h \in LogIdx(i) : IsMapCall(i, h, k) => h = j
        /\ IsInnerFailure(i, j, k) =>
              /\ j + 1 \in LogIdx(i)
              /\ LogAt(i, j + 1) = EvError(k, Either_Left(InnerFailure(i, j)))
              /\ \A h \in LogIdx(i) : ~IsMapCall(i, h, k)
              /\ conns[i].layers[k].inner = "Left"
              /\ "fut" \notin DOMAIN conns[i].layers[k]

\* A connection through two and_then layers: the first called its map
\* function after the base future's success, its map future failed, and the
\* second resolved with Left of that failure.
C13_Witness ==
    \E i \in ConnIdx : \E j \in LogIdx(i) :
        /\ pipeline = <<"and_then", "and_then">>
        /\ IsMapCall(i, j, 1)
        /\ conns[i].ret = ReadyErr(Either_Left(Either_Right([type |-> "MapFutError", e |-> "m1"])))

\* The error the map future of layer k failed with in event j.
MapFailure(i, j, k) ==
    IF pipeline[k] = "and_then" THEN LogAt(i, j).err ELSE UpgradeFailure(i, j)
IsMapFailure(i, j, k) == IsLogEv(i, j, "failed") /\ LogAt(i, j).stage = k

\* C14: the error of an and_then transport is Left(e) exactly when e is an
\* error of the inner transport (its connect or listen call, its dialer or
\* listener-upgrade future, an Error or Closed(Err) event of its listener)
\* and Right(e) exactly when e is an error of the map future; every such
\* error is reported.
C14_AndThenTags ==
    /\ \A i \in ConnIdx : \A j \in LogIdx(i) : \A k \in AndThenStages :
          /\ (IsLogEv(i, j, "error") /\ LogAt(i, j).stage = k) =>
                /\ j > 1
                /\ LogAt(i, j).err.variant \in {"Left", "Right"}
                /\ LogAt(i, j).err.variant = "Left" <=> IsInnerFailure(i, j - 1, k)
                /\ LogAt(i, j).err.variant = "Right" <=> IsMapFailure(i, j - 1, k)
                /\ IsInnerFailure(i, j - 1, k) =>
                      LogAt(i, j).err = Either_Left(InnerFailure(i, j - 1))
                /\ IsMapFailure(i, j - 1, k) =>
                      LogAt(i, j).err = Either_Right(MapFailure(i, j - 1, k))
          /\ (IsInnerFailure(i, j, k) \/ IsMapFailure(i, j, k)) =>
                /\ j + 1 \in LogIdx(i)
                /\ IsLogEv(i, j + 1, "error")
                /\ LogAt(i, j + 1).stage = k
    /\ \A rec \in lsSync : \A k \in AndThenStages :
          SyncErrAt(rec, k) = Either_Left(SyncErrAt(rec, k - 1))
    /\ \A h \in HistIdx : \A k \in AndThenStages :
          /\ ItemAt(h, k).ev = "Error" =>
                /\ ItemAt(h, k - 1).ev = "Error"
                /\ ItemAt(h, k).err = Either_Left(ItemAt(h, k - 1).err)
          /\ (ItemAt(h, k).ev = "Closed" /\ ~ItemAt(h, k).result.ok) =>
                /\ ItemAt(h, k - 1).ev = "Closed"
                /\ ~ItemAt(h, k - 1).result.ok
                /\ ItemAt(h, k).result.err = Either_Left(ItemAt(h, k - 1).result.err)
          /\ ItemAt(h, k - 1).ev = "Error" => ItemAt(h, k).ev = "Error"
          /\ (ItemAt(h, k - 1).ev = "Closed" /\ ~ItemAt(h, k - 1).result.ok) =>
                (ItemAt(h, k).ev = "Closed" /\ ~ItemAt(h, k).result.ok)

\* An and_then transport whose connect call failed, whose listener yielded an
\* Error and a Closed(Err) event, and whose connection failed in the map
\* future.
C14_Witness ==
    /\ pipeline[Len(pipeline)] = "and_then"
    /\ \E rec \in lsSync : rec.call = "connect"
    /\ \E h \in HistIdx : ItemAt(h, 0).ev = "Error"
    /\ \E h \in HistIdx : ItemAt(h, 0).ev = "Closed" /\ ~ItemAt(h, 0).result.ok
    /\ \E i \in ConnIdx :
          /\ IsReadyErr(conns[i].ret)
          /\ conns[i].ret.err.variant = "Right"

\* The layers made by map(f).
MapStages == {k \in DOMAIN pipeline : pipeline[k] = "map"}
IsFnCall(i, j, k) == IsLogEv(i, j, "fn") /\ LogAt(i, j).stage = k

\* C15: a map(f) future resolves with f(o, p) for the inner future's output o
\* and the connected point p, which it holds before the inner future is
\* polled (Dialer{addr} from connect, Listener{local, remote} of the Incoming
\* event); f runs exactly once, when the inner future succeeds; when the
\* inner future fails f is not run and the error is passed on unchanged.
C15_MapOutput ==
    \A i \in ConnIdx : \A k \in MapStages :
        /\ conns[i].log = <<>> =>
              conns[i].layers[k].args =
                  Some([fun |-> "f", connected_point |-> conns[i].point])
        /\ \A j \in LogIdx(i) :
              /\ IsFnCall(i, j, k) =>
                    /\ j > 1
                    /\ IsInnerOk(i, j - 1, k)
                    /\ LogAt(i, j).arg = InnerOutput(i, j - 1)
                    /\ LogAt(i, j).p = conns[i].point
                    /\ \A h \in LogIdx(i) : IsFnCall(i, h, k) => h = j
              /\ IsInnerOk(i, j, k) =>
                    /\ j + 2 \in LogIdx(i)
                    /\ IsFnCall(i, j + 1, k)
                    /\ LogAt(i, j + 2) =
                          EvOutput(k, MapFn(InnerOutput(i, j), conns[i].point))
              /\ IsInnerFailure(i, j, k) =>
                    /\ j + 1 \in LogIdx(i)
                    /\ LogAt(i, j + 1) = EvError(k, InnerFailure(i, j))
                    /\ \A h \in LogIdx(i) : ~IsFnCall(i, h, k)
              /\ (LogAt(i, j).stage = k /\ LogAt(i, j).ev \in {"output", "error"}) =>
                    /\ j > 1
                    /\ IsFnCall(i, j - 1, k) \/ IsInnerFailure(i, j - 1, k)

\* A connection accepted by the listener of a map(f) transport has resolved
\* with f(o, Listener{local, remote}).
C15_Witness ==
    \E i \in ConnIdx :
        /\ pipeline[Len(pipeline)] = "map"
        /\ conns[i].via = "incoming"
        /\ conns[i].point.variant = "Listener"
        /\ IsReadyOk(conns[i].ret)
        /\ conns[i].ret.val = MapFn(conns[i].ret.val.o, conns[i].point)

\* The layers made by map_err(f).
MapErrStages == {k \in DOMAIN pipeline : pipeline[k] = "map_err"}

\* C16: a map_err(f) transport reports f(e) for every error e of its inner
\* transport, whether e comes from the connect or listen call, from the
\* dialer or listener-upgrade future, or from an Error or Closed(Err) event
\* of the listener; f is applied to e exactly once.
C16_MapErrEverywhere ==
    /\ \A i \in ConnIdx : \A k \in MapErrStages : \A j \in LogIdx(i) :
          /\ IsInnerFailure(i, j, k) =>
                /\ j + 2 \in LogIdx(i)
                /\ LogAt(i, j + 1) = EvFnCall(k, InnerFailure(i, j), None)
                /\ LogAt(i, j + 2) = EvError(k, MapErrFn(InnerFailure(i, j)))
                /\ \A h \in LogIdx(i) : IsFnCall(i, h, k) => h = j + 1
          /\ (IsLogEv(i, j, "error") /\ LogAt(i, j).stage = k) =>
                /\ j > 2
                /\ IsInnerFailure(i, j - 2, k)
    /\ \A rec \in lsSync : \A k \in MapErrStages :
          SyncErrAt(rec, k) = MapErrFn(SyncErrAt(rec, k - 1))
    /\ \A h \in HistIdx : \A k \in MapErrStages :
          /\ ItemAt(h, k - 1).ev = "Error" =>
                ItemAt(h, k) = ErrorEvent(MapErrFn(ItemAt(h, k - 1).err))
          /\ (ItemAt(h, k - 1).ev = "Closed" /\ ~ItemAt(h, k - 1).result.ok) =>
                ItemAt(h, k) = Closed(ResultErr(MapErrFn(ItemAt(h, k - 1).result.err)))
          /\ ItemAt(h, k).ev = "Error" => ItemAt(h, k - 1).ev = "Error"

\* A map_err(f) transport over the base transport whose connect failed with
\* E1 and returned f(E1), whose listener yielded an Error event, and whose
\* connection failed with f of the base future's error.
C16_Witness ==
    /\ pipeline[1] = "map_err"
    /\ \E rec \in lsSync :
          /\ rec.call = "connect"
          /\ SyncErrAt(rec, 1) = MapErrFn(SyncErrAt(rec, 0))
    /\ \E h \in HistIdx : ItemAt(h, 1).ev = "Error"
    /\ \E i \in ConnIdx : \E j \in LogIdx(i) :
          IsLogEv(i, j, "error") /\ LogAt(i, j).stage = 1

\* C17: a map_err(f) future resolves with the inner future's output as it
\* is, and f is not applied when the inner future succeeds.
C17_MapErrKeepsOutput ==
    \A i \in ConnIdx : \A k \in MapErrStages : \A j \in LogIdx(i) :
        /\ IsInnerOk(i, j, k) =>
              /\ j + 1 \in LogIdx(i)
              /\ LogAt(i, j + 1) = EvOutput(k, InnerOutput(i, j))
              /\ \A h \in LogIdx(i) : ~IsFnCall(i, h, k)
        /\ (IsLogEv(i, j, "output") /\ LogAt(i, j).stage = k) =>
              /\ j > 1
              /\ IsInnerOk(i, j - 1, k)

\* A connection through map_err(f) over map(f) has resolved with the output
\* of map(f).
C17_Witness ==
    \E i \in ConnIdx :
        /\ pipeline = <<"map", "map_err">>
        /\ IsReadyOk(conns[i].ret)
        /\ conns[i].ret.val = MapFn(conns[i].io, conns[i].point)

\* Every combinator layer of the transport.
Layers == DOMAIN pipeline

\* C18: the listener of every combinator (map, and_then, map_err, apply,
\* boxed) yields a Listened event with the address of its inner listener's
\* event and an Incoming event with the same local and remote address; it
\* changes only the upgrade future, which it wraps, and the error of an
\* Error or Closed(Err) event.
C18_AddressesForwarded ==
    \A h \in HistIdx : \A k \in Layers :
        LET inner == ItemAt(h, k - 1)
            out   == ItemAt(h, k)
        IN  /\ inner.ev = "Listened" => out = inner
            /\ inner.ev = "Incoming" =>
                  /\ out.ev = "Incoming"
                  /\ out.local_addr = inner.local_addr
                  /\ out.remote_addr = inner.remote_addr
                  /\ Len(out.upgrade) = Len(inner.upgrade) + 1
                  /\ SubSeq(out.upgrade, 1, Len(inner.upgrade)) = inner.upgrade
            /\ (inner.ev = "Closed" /\ inner.result.ok) => out = inner
            /\ inner.ev = "Error" => out.ev = "Error"
            /\ (inner.ev = "Closed" /\ ~inner.result.ok) =>
                  (out.ev = "Closed" /\ ~out.result.ok)

\* The listener of authenticate, apply, multiplex and boxed over the base
\* listener has yielded a Listened and an Incoming event.
C18_Witness ==
    /\ pipeline = Pipeline(1)
    /\ \E h \in HistIdx : ItemAt(h, Len(pipeline)).ev = "Listened"
    /\ \E h \in HistIdx : ItemAt(h, Len(pipeline)).ev = "Incoming"

\* C19: each time the base listener yields, the listener of every combinator
\* yields one event of the same variant, so that the events come out one for
\* one and in the inner listener's order; a Closed event comes out as Closed
\* with the same kind of result, and the end of the inner stream comes out as
\* the end of the stream, after which nothing is yielded.
C19_OneEventPerInnerEvent ==
    /\ \A h \in HistIdx :
          /\ Len(lsHist[h]) = Len(pipeline) + 1
          /\ \A k \in Layers :
                /\ ItemAt(h, k).ev = ItemAt(h, k - 1).ev
                /\ ItemAt(h, k).ev = "Closed" =>
                      ItemAt(h, k).result.ok = ItemAt(h, k - 1).result.ok
          /\ ItemAt(h, 0).ev = "None" => h = Len(lsHist)
    /\ lsn.state = "ended" <=>
          (lsHist # <<>> /\ ItemAt(Len(lsHist), Len(pipeline)) = StreamEnd)

\* The listener of a transport of at least two combinators has yielded a
\* Closed event and then the end of the stream.
C19_Witness ==
    /\ Len(pipeline) >= 2
    /\ Len(lsHist) >= 2
    /\ ItemAt(Len(lsHist) - 1, Len(pipeline)).ev = "Closed"
    /\ ItemAt(Len(lsHist), Len(pipeline)).ev = "None"
    /\ lsn.state = "ended"

-----------------------------------------------------------------------------
(* Properties of boxed transports (specification SpecBoxed) *)

\* The layers made by boxed(T).
BoxStages == {k \in DOMAIN pipeline : pipeline[k] = "box"}
IsOutputAt(i, j, k) == IsLogEv(i, j, "output") /\ LogAt(i, j).stage = k
IsErrorAt(i, j, k) == IsLogEv(i, j, "error") /\ LogAt(i, j).stage = k

\* C24: a connection of boxed(T) succeeds exactly when the connection of T
\* succeeds, with the same output, and fails exactly when T's fails; the
\* listener of boxed(T) yields, event for event, the variant of T's listener
\* with the same addresses and the same kind of Closed result.
C24_BoxedTransparent ==
    /\ \A i \in ConnIdx : \A k \in BoxStages : \A j \in LogIdx(i) :
          /\ IsInnerOk(i, j, k) =>
                /\ j + 1 \in LogIdx(i)
                /\ IsOutputAt(i, j + 1, k)
                /\ LogAt(i, j + 1).out = InnerOutput(i, j)
          /\ IsInnerFailure(i, j, k) =>
                /\ j + 1 \in LogIdx(i)
                /\ IsErrorAt(i, j + 1, k)
          /\ IsOutputAt(i, j, k) => (j > 1 /\ IsInnerOk(i, j - 1, k))
          /\ IsErrorAt(i, j, k) => (j > 1 /\ IsInnerFailure(i, j - 1, k))
    /\ \A h \in HistIdx : \A k \in BoxStages :
          LET inner == ItemAt(h, k - 1)
              out   == ItemAt(h, k)
          IN  /\ out.ev = inner.ev
              /\ inner.ev = "Listened" => out.addr = inner.addr
              /\ inner.ev = "Incoming" =>
                    /\ out.local_addr = inner.local_addr
                    /\ out.remote_addr = inner.remote_addr
              /\ inner.ev = "Closed" => out.result.ok = inner.result.ok

\* A connection accepted by the listener of boxed(map(f)) has resolved with
\* the output of map(f).
C24_Witness ==
    \E i \in ConnIdx :
        /\ pipeline = <<"map", "box">>
        /\ conns[i].via = "incoming"
        /\ \E h \in HistIdx : ItemAt(h, 2).ev = "Incoming"
        /\ IsReadyOk(conns[i].ret)
        /\ conns[i].ret.val = MapFn(conns[i].io, conns[i].point)

\* C25: every error of a boxed transport is box_err(e) for the error e of
\* the inner transport, which it carries as its source: the error of a
\* failed connect or listen call, of the dialer future, of the
\* listener-upgrade future, of an Error event and of a Closed(Err) event;
\* e is wrapped once.
C25_BoxedErrors ==
    /\ \A rec \in lsSync : \A k \in BoxStages :
          /\ SyncErrAt(rec, k).type = "io::Error"
          /\ SyncErrAt(rec, k).source = SyncErrAt(rec, k - 1)
    /\ \A i \in ConnIdx : \A k \in BoxStages : \A j \in LogIdx(i) :
          /\ IsInnerFailure(i, j, k) =>
                /\ j + 1 \in LogIdx(i)
                /\ LogAt(i, j + 1) = EvError(k, box_err(InnerFailure(i, j)))
          /\ IsErrorAt(i, j, k) =>
                /\ j > 1
                /\ IsInnerFailure(i, j - 1, k)
                /\ LogAt(i, j).err.source = InnerFailure(i, j - 1)
    /\ \A h \in HistIdx : \A k \in BoxStages :
          /\ ItemAt(h, k - 1).ev = "Error" =>
                ItemAt(h, k) = ErrorEvent(box_err(ItemAt(h, k - 1).err))
          /\ (ItemAt(h, k - 1).ev = "Closed" /\ ~ItemAt(h, k - 1).result.ok) =>
                ItemAt(h, k) = Closed(ResultErr(box_err(ItemAt(h, k - 1).result.err)))

\* A boxed transport whose connect call failed, whose listener yielded an
\* Error and a Closed(Err) event, and whose connection failed.
C25_Witness ==
    /\ BoxStages # {}
    /\ \E rec \in lsSync : rec.call = "connect"
    /\ \E h \in HistIdx : ItemAt(h, 0).ev = "Error"
    /\ \E h \in HistIdx : ItemAt(h, 0).ev = "Closed" /\ ~ItemAt(h, 0).result.ok
    /\ \E i \in ConnIdx :
          /\ IsReadyErr(conns[i].ret)
          /\ conns[i].ret.err.type = "io::Error"

-----------------------------------------------------------------------------
(* Properties of the TCP listener (specification SpecTcp) *)

\* The TCP listener (layer 0) and the listeners over it.
TcpLayers == 0..Len(pipeline)

\* C20: the TCP listener, and the WebSocket listener that wraps it, yields
\* Listened exactly once and as its first event, before any Incoming or
\* Error event; the event carries the address it listens on.
C20_ListenedFirst ==
    /\ lsn.state = "listening" =>
          lsn.pending_event =
              (IF lsHist = <<>> THEN Some(Listened(lsn.listener_addr)) ELSE None)
    /\ \A h \in HistIdx : \A k \in TcpLayers :
          /\ Len(lsHist[h]) = Len(pipeline) + 1
          /\ h = 1 => ItemAt(h, k) = Listened(lsn.listener_addr)
          /\ h > 1 => ItemAt(h, k).ev \in {"Incoming", "Error"}

\* The WebSocket listener has yielded Listened and then an Incoming and an
\* Error event.
C20_Witness ==
    /\ pipeline = <<"ws">>
    /\ Len(lsHist) >= 3
    /\ ItemAt(1, 1).ev = "Listened"
    /\ \E h \in HistIdx : ItemAt(h, 1).ev = "Incoming"
    /\ \E h \in HistIdx : ItemAt(h, 1).ev = "Error"

\* C21: the first Listened event carries the address passed to listen, or,
\* when that address asks for port 0, the address the listener is bound to.
C21_ListenedAddress ==
    (lsn.state = "listening" /\ lsHist # <<>>) =>
        \A k \in TcpLayers :
            ItemAt(1, k) =
                Listened(IF lsn.listener_addr = AnyPortAddr
                         THEN lsn.listener.local_addr
                         ELSE lsn.listener_addr)

\* C23: when accept fails the TCP listener yields Error(e) and goes on: it
\* stays as it was, the next poll can yield a further event, the events
\* after the Error are Incoming or Error, and no accept failure makes the
\* listener yield Closed or end the stream.
C23_ErrorNonFatal ==
    /\ \A h \in HistIdx : \A k \in TcpLayers :
          /\ ItemAt(h, k).ev \in {"Listened", "Incoming", "Error"}
          /\ ItemAt(h, 0).ev = "Error" =>
                /\ ItemAt(h, 0).err \in TransportErrors
                /\ ItemAt(h, k).ev = "Error"
                /\ lsn.state = "listening"
                /\ lsn.pending_event = None
    /\ (lsn.state = "listening" /\ Len(lsHist) < TcpEvents) => ENABLED TcpPollNext
    /\ lsn.state \in {"none", "failed", "listening"}

\* The TCP listener has yielded an Error event and, after it, an Incoming
\* event.
C23_Witness ==
    \E h \in HistIdx :
        /\ h + 1 \in HistIdx
        /\ ItemAt(h, 0).ev = "Error"
        /\ ItemAt(h + 1, 0).ev = "Incoming"
        /\ lsn.state = "listening"

-----------------------------------------------------------------------------
(* Properties of the QUIC listener (specification SpecQuic) *)

\* C22: the first event of the QUIC listener is Listened(local address); no
\* Incoming or Error event comes before it.
C22_QuicListenedFirst ==
    \A h \in HistIdx :
        ItemAt(h, 0).ev \in {"Incoming", "Error"} =>
            /\ h > 1
            /\ ItemAt(1, 0) = Listened(lsn.local_addr)

\* C39: no poll_next of the QUIC listener polls a completed accept future:
\* when the accept future resolves to None the call returns (the stream
\* ends or suspends), it does not go round the loop and unwind with the
\* panic of a future polled after completion.
C39_QuicAcceptNotRepolled ==
    /\ lsn.state # "panicked"
    /\ \A h \in HistIdx : ItemAt(h, 0).ev # "Panic"

-----------------------------------------------------------------------------
(* Upgrades called directly: protocol_info and the two entrypoints *)

\* The upgrades under test: leaves, selections (nested on either side) and
\* Either values holding one variant.
UpUpgrades ==
    LET ra == ReadyUpgrade("/a")
        uc == UserUpgrade("/c", "stream")
        pb == PendingUpgrade("/b")
    IN  {ra, uc,
         SelectUpgrade(ra, uc), SelectUpgrade(uc, ra),
         SelectUpgrade(SelectUpgrade(ra, uc), pb),
         SelectUpgrade(pb, SelectUpgrade(uc, ra)),
         EitherUpgrade("Left", ra), EitherUpgrade("Right", uc),
         EitherUpgrade("Left", SelectUpgrade(ra, uc))}

OtherVariant(v) == IF v = "Left" THEN "Right" ELSE "Left"

\* The values of an upgrade's Info type a caller can pass to an entrypoint:
\* the tokens it offers and, for an Either, tokens of the variant it does
\* not hold (here an Either<A, A>, so the other variant's tokens are A's).
UpInfos(u) ==
    Range(protocol_info(u))
        \cup (IF u.kind = "either"
              THEN {TagInfo(OtherVariant(u.variant), i) :
                       i \in Range(protocol_info(u.up))}
              ELSE {})

\* A call of an entrypoint unwinds when any match in it hits the panic arm.
RECURSIVE EntryPanics(_)
EntryPanics(f) ==
    IF f.fut = "Panic" THEN TRUE
    ELSE IF f.fut = "EitherFuture" THEN EntryPanics(f.inner)
    ELSE FALSE

EvOffer(u, infos) == [ev |-> "offer", upgrade |-> u, infos |-> infos]
EvEntry(entry, stream, info) ==
    [ev |-> "entry", entry |-> entry, stream |-> stream, info |-> info]
EvPanic == [ev |-> "panic"]
EvPolled(res) == [ev |-> "polled", res |-> res]

InitUp == UaIdle /\ NegIdle /\ PipeIdle /\ LsIdle

\* protocol_info() is taken from an upgrade.
UpOffer ==
    /\ ua = NotCreated
    /\ \E u \in UpUpgrades :
          /\ ua' = [state |-> "Offered", upgrade |-> u,
                    infos |-> protocol_info(u)]
          /\ uaArgs' = [entry |-> "none", io |-> "none", upgrade |-> u]
          /\ uaTrace' = uaTrace \o <<EvOffer(u, protocol_info(u))>>
    /\ UNCHANGED <<uaPolls, negVars, pipeVars, lsVars>>

\* upgrade_inbound or upgrade_outbound is called with a stream and an info.
UpCall ==
    /\ ua.state = "Offered"
    /\ \E entry \in {"inbound", "outbound"}, io \in Streams,
          info \in UpInfos(ua.upgrade) :
          LET f == upgrade_entry(ua.upgrade, entry, io, info)
          IN  /\ uaArgs' = [entry |-> entry, io |-> io, upgrade |-> ua.upgrade]
              /\ IF EntryPanics(f)
                 THEN /\ ua' = [state |-> "Panicked", upgrade |-> ua.upgrade,
                                infos |-> ua.infos]
                      /\ uaTrace' = uaTrace \o <<EvEntry(entry, io, info), EvPanic>>
                 ELSE /\ ua' = [state |-> "Future", upgrade |-> ua.upgrade,
                                infos |-> ua.infos, fut |-> f]
                      /\ uaTrace' = uaTrace \o <<EvEntry(entry, io, info), EvCall(f)>>
    /\ UNCHANGED <<uaPolls, negVars, pipeVars, lsVars>>

\* The future the entrypoint returned is polled.
UpPoll ==
    /\ ua.state = "Future"
    /\ uaPolls < MaxPolls
    /\ \E choice \in FutureChoices :
          LET r == Future_poll(ua.fut, choice)
          IN  /\ uaTrace' = uaTrace \o <<EvPolled(r)>>
              /\ ua' = IF IsReady(r)
                       THEN [state |-> "Done", upgrade |-> ua.upgrade,
                             infos |-> ua.infos, fut |-> ua.fut]
                       ELSE ua
    /\ uaPolls' = uaPolls + 1
    /\ UNCHANGED <<uaArgs, negVars, pipeVars, lsVars>>

NextUp == UpOffer \/ UpCall \/ UpPoll

SpecUp == InitUp /\ [][NextUp]_vars

-----------------------------------------------------------------------------
(* ReadyUpgrade under UpgradeApply (Spec) *)

\* The UpgradeApply under test was built over a ReadyUpgrade.
OverReady == ua # NotCreated /\ uaArgs.upgrade.kind = "ready"

\* C29: an UpgradeApply over ReadyUpgrade(P) offers exactly the single token
\* P, never returns UpgradeError::Apply, and when the negotiator returns
\* Ready(Ok) the same poll goes on to call the entrypoint, poll its future
\* and return Ready(Ok) with the negotiated stream itself.
C29_ReadyUpgradePassesStream ==
    OverReady =>
        /\ ua.state \in {"DialerInit", "ListenerInit"} =>
              ua.future.protocols = <<Info(uaArgs.upgrade.protocol_name)>>
        /\ \A i \in TraceIdx : ~IsErrReturn(i, "Apply")
        /\ \A i \in TraceIdx : IsNegOk(i) =>
              /\ i + 4 <= Len(uaTrace)
              /\ IsEv(i + 1, "call")
              /\ IsEv(i + 2, "enter")
              /\ IsEv(i + 3, "future")
              /\ IsEv(i + 4, "return")
              /\ uaTrace[i + 4].ret = ReadyOk(uaTrace[i].out.val.io)

\* The negotiator was pending once and then agreed, and the UpgradeApply
\* over a ReadyUpgrade returned.
C29_Witness ==
    /\ OverReady
    /\ \E i \in TraceIdx : IsNegPending(i)
    /\ \E i \in TraceIdx : IsNegOk(i)
    /\ IsReadyReturn(Len(uaTrace))

-----------------------------------------------------------------------------
(* Properties of the upgrade combinators (SpecUp) *)

\* The offer event of the upgrade under test.
IsOffer(i) == uaTrace[i].ev = "offer"
\* The tokens of a leaf, of A and of B, as each of them offers them alone.
OfferedBy(u) == protocol_info(u)

\* C26: the info sequence of SelectUpgrade(A, B) is all of A's tokens in A's
\* order, each tagged Left, followed by all of B's tokens in B's order, each
\* tagged Right; nothing is dropped and nothing added.  The dialer's
\* negotiator is built over exactly that sequence and starts at its first
\* entry, so this is the order in which the dialer proposes.
C26_SelectInfoOrder ==
    \A i \in DOMAIN uaTrace :
        (IsOffer(i) /\ uaTrace[i].upgrade.kind = "select") =>
            LET u  == uaTrace[i].upgrade
                l  == uaTrace[i].infos
                pa == OfferedBy(u.a)
                pb == OfferedBy(u.b)
                d  == new_outbound(CHOOSE io \in Streams : TRUE, u).future
            IN  /\ Len(l) = Len(pa) + Len(pb)
                /\ \A k \in 1..Len(pa) :
                      /\ l[k].tags[1] = "Left"
                      /\ UntagInfo(l[k]) = pa[k]
                /\ \A k \in 1..Len(pb) :
                      /\ l[Len(pa) + k].tags[1] = "Right"
                      /\ UntagInfo(l[Len(pa) + k]) = pb[k]
                /\ d.protocols = l
                /\ d.next = 1

\* A selection whose A side offers two tokens and whose B side offers one
\* has been asked for its tokens.
C26_Witness ==
    \E i \in DOMAIN uaTrace :
        /\ IsOffer(i)
        /\ uaTrace[i].upgrade.kind = "select"
        /\ Len(OfferedBy(uaTrace[i].upgrade.a)) = 2
        /\ Len(OfferedBy(uaTrace[i].upgrade.b)) = 1
        /\ Len(uaTrace[i].infos) = 3

\* The leaf upgrades an upgrade is built from.
RECURSIVE LeavesOf(_)
LeavesOf(u) ==
    IF u.kind = "select" THEN LeavesOf(u.a) \cup LeavesOf(u.b)
    ELSE IF u.kind = "either" THEN LeavesOf(u.up)
    ELSE {u}

\* What a Ready poll result carries, success or error.
Payload(r) == IF r.ok THEN r.val ELSE r.err
\* The results the future of `u`, called alone with the same entrypoint,
\* stream and info, can resolve with.
ResultsAlone(u, entry, stream, info) ==
    {r \in {Future_poll(upgrade_entry(u, entry, stream, info), c) :
                c \in FutureChoices} : IsReady(r)}

\* C27: SelectUpgrade(A, B) called with a Left info runs exactly A (the leaf
\* that runs is one of A's, with the entrypoint, stream and untagged info
\* the selection was called with; none of B's runs), and the future's
\* output or error is A's, tagged Left; with a Right info it is B and
\* Right.  This holds for upgrade_inbound and upgrade_outbound alike.
C27_SelectRunsChosen ==
    \A i \in DOMAIN uaTrace :
        (uaTrace[i].ev = "call" /\ uaArgs.upgrade.kind = "select") =>
            LET u      == uaArgs.upgrade
                c      == uaTrace[i]
                t      == c.info.tags[1]
                chosen == IF t = "Left" THEN u.a ELSE u.b
                other  == IF t = "Left" THEN u.b ELSE u.a
            IN  /\ t \in {"Left", "Right"}
                /\ c.entry = uaArgs.entry
                /\ c.stream = uaArgs.io
                /\ c.ran \in LeavesOf(chosen)
                /\ c.ran \notin LeavesOf(other)
                /\ c.ran.protocol_name = c.info.name
                /\ c.leafEntry = c.entry
                /\ \A j \in DOMAIN uaTrace :
                      (uaTrace[j].ev = "polled" /\ IsReady(uaTrace[j].res)) =>
                          LET r == uaTrace[j].res
                          IN  /\ Payload(r).variant = t
                              /\ \E a \in ResultsAlone(chosen, c.entry, c.stream,
                                                       UntagInfo(c.info)) :
                                    /\ a.ok = r.ok
                                    /\ Payload(a) = Payload(r).e

\* A selection was called through the inbound entrypoint with a Right info
\* and its future resolved.
C27_Witness ==
    /\ \E i \in DOMAIN uaTrace :
          /\ uaTrace[i].ev = "call"
          /\ uaTrace[i].entry = "inbound"
          /\ uaTrace[i].info.tags # <<>>
          /\ uaTrace[i].info.tags[1] = "Right"
          /\ uaArgs.upgrade.kind = "select"
    /\ \E j \in DOMAIN uaTrace :
          uaTrace[j].ev = "polled" /\ IsReady(uaTrace[j].res)

\* C28: an Either used as an upgrade offers only the tokens of the variant
\* it holds, each tagged with that variant; an entrypoint called with an
\* info of the other variant panics, and no upgrade runs; called with an
\* info of the held variant it runs the held upgrade.
C28_EitherHeldVariantOnly ==
    \A i \in DOMAIN uaTrace :
        /\ (IsOffer(i) /\ uaTrace[i].upgrade.kind = "either") =>
              LET u == uaTrace[i].upgrade
                  l == uaTrace[i].infos
                  p == OfferedBy(u.up)
              IN  /\ Len(l) = Len(p)
                  /\ \A k \in 1..Len(l) :
                        /\ l[k].tags[1] = u.variant
                        /\ UntagInfo(l[k]) = p[k]
        /\ (uaTrace[i].ev = "entry" /\ uaArgs.upgrade.kind = "either") =>
              LET u == uaArgs.upgrade
              IN  /\ i + 1 \in DOMAIN uaTrace
                  /\ IF uaTrace[i].info.tags[1] = u.variant
                     THEN /\ uaTrace[i + 1].ev = "call"
                          /\ uaTrace[i + 1].ran \in LeavesOf(u.up)
                          /\ uaTrace[i + 1].leafEntry = uaTrace[i].entry
                     ELSE /\ uaTrace[i + 1] = EvPanic
                          /\ Len(uaTrace) = i + 1
                          /\ ua.state = "Panicked"
                          /\ ~ENABLED UpPoll

\* An Either holding Left was called with a Right info.
C28_Witness ==
    \E i \in DOMAIN uaTrace :
        /\ uaTrace[i].ev = "entry"
        /\ uaArgs.upgrade.kind = "either"
        /\ uaArgs.upgrade.variant = "Left"
        /\ uaTrace[i].info.tags[1] = "Right"
        /\ ua.state = "Panicked"

-----------------------------------------------------------------------------
(* Specification SpecMux: the QUIC Connection as a StreamMuxer *)

\* quinn::ConnectionError values the connection can end with.
LocallyClosed == [type |-> "ConnectionError", e |-> "LocallyClosed"]
MuxConnectionErrors ==
    {LocallyClosed, [type |-> "ConnectionError", e |-> "ApplicationClosed"]}

\* The quinn connection while it is not closed.
ConnectionOpen == [type |-> "Open", e |-> "none"]

\* A substream made of the two halves quinn hands out.
Stream_new(n) == [substream |-> n]

\* Connection::new: no future is stored yet.  `connection` is the state of
\* the quinn connection: ConnectionOpen or the error it was closed with.
Connection_new ==
    [state |-> "Connection", connection |-> ConnectionOpen,
     incoming |-> "None", outgoing |-> "None", closing |-> "None"]

\* What a stored accept_bi() / open_bi() future returns when polled: on an
\* open connection it is pending or has a stream, on a closed one it fails
\* with the connection's error.
BiOutcomes(m) ==
    IF m.connection = ConnectionOpen
    THEN {PollPending, ReadyOk(Stream_new(1))}
    ELSE {ReadyErr(m.connection)}

\* poll_inbound and poll_outbound share their shape; `slot` is the field
\* holding the stored future.  The future is created when the slot is empty
\* and taken out only after it returned Ok(..): `?` returns an error with the
\* completed future still stored, and polling that future again panics.
Connection_poll_bi(m, slot, out) ==
    IF m[slot] = "Finished"
    THEN [m |-> [m EXCEPT !.state = "Unwound"], res |-> Panicked]
    ELSE IF out = PollPending
    THEN [m |-> [m EXCEPT ![slot] = "Stored"], res |-> PollPending]
    ELSE IF IsReadyErr(out)
    THEN [m |-> [m EXCEPT ![slot] = "Finished"],
          res |-> ReadyErr(QuicError_from(out.err))]
    ELSE [m |-> [m EXCEPT ![slot] = "None"], res |-> ReadyOk(out.val)]

Connection_poll_inbound(m, out) == Connection_poll_bi(m, "incoming", out)
Connection_poll_outbound(m, out) == Connection_poll_bi(m, "outgoing", out)

\* poll_close stores the future of connection.closed() and polls it: it is
\* pending while the connection is open and returns the error the
\* connection was closed with; LocallyClosed is reported as Ok(()).  The
\* future is never taken out.
Connection_poll_close(m) ==
    IF m.closing = "Finished"
    THEN [m |-> [m EXCEPT !.state = "Unwound"], res |-> Panicked]
    ELSE IF m.connection = ConnectionOpen
    THEN [m |-> [m EXCEPT !.closing = "Stored"], res |-> PollPending]
    ELSE IF m.connection = LocallyClosed
    THEN [m |-> [m EXCEPT !.closing = "Finished"], res |-> ReadyOk("unit")]
    ELSE [m |-> [m EXCEPT !.closing = "Finished"],
          res |-> ReadyErr(QuicError_from(m.connection))]

\* poll: no muxer event exists.
Connection_poll(m) == [m |-> m, res |-> PollPending]

EvMux(op, res) == [ev |-> "mux", op |-> op, res |-> res]

InitMux == UaIdle /\ NegIdle /\ PipeIdle /\ LsIdle

\* The handshake resolved with a muxer.
MuxNew ==
    /\ ua = NotCreated
    /\ ua' = Connection_new
    /\ UNCHANGED <<uaArgs, uaTrace, uaPolls, negVars, pipeVars, lsVars>>

\* The quinn connection is closed, by this side or by the peer.
QuinnClosed ==
    /\ ua.state = "Connection"
    /\ ua.connection = ConnectionOpen
    /\ \E e \in MuxConnectionErrors : ua' = [ua EXCEPT !.connection = e]
    /\ UNCHANGED <<uaArgs, uaTrace, uaPolls, negVars, pipeVars, lsVars>>

MuxCall(op, r) ==
    /\ ua' = r.m
    /\ uaTrace' = uaTrace \o <<EvMux(op, r.res)>>
    /\ uaPolls' = uaPolls + 1
    /\ UNCHANGED <<uaArgs, negVars, pipeVars, lsVars>>

MuxPollInbound ==
    /\ ua.state = "Connection"
    /\ uaPolls < MaxPolls
    /\ \E out \in BiOutcomes(ua) :
          MuxCall("poll_inbound", Connection_poll_inbound(ua, out))

MuxPollOutbound ==
    /\ ua.state = "Connection"
    /\ uaPolls < MaxPolls
    /\ \E out \in BiOutcomes(ua) :
          MuxCall("poll_outbound", Connection_poll_outbound(ua, out))

MuxPollClose ==
    /\ ua.state = "Connection"
    /\ uaPolls < MaxPolls
    /\ MuxCall("poll_close", Connection_poll_close(ua))

MuxPoll ==
    /\ ua.state = "Connection"
    /\ uaPolls < MaxPolls
    /\ MuxCall("poll", Connection_poll(ua))

NextMux ==
    MuxNew \/ QuinnClosed \/ MuxPollInbound \/ MuxPollOutbound
        \/ MuxPollClose \/ MuxPoll

SpecMux == InitMux /\ [][NextMux]_vars

-----------------------------------------------------------------------------
(* Properties of the QUIC muxer (SpecMux) *)

\* poll_close has returned Ready(Ok) at position i of the trace.
ClosedAt(i) ==
    /\ uaTrace[i].op = "poll_close"
    /\ IsReadyOk(uaTrace[i].res)

SlotOf(op) == IF op = "poll_inbound" THEN "incoming" ELSE "outgoing"

\* C38: when poll_inbound or poll_outbound has returned Ready, with a
\* substream or with an error, the slot caching its accept or open future
\* is empty, and no call of the two polls a completed future (which
\* panics).
C38_SlotClearedOnReady ==
    /\ \A i \in DOMAIN uaTrace :
          uaTrace[i].op \in {"poll_inbound", "poll_outbound"} =>
              uaTrace[i].res # Panicked
    /\ uaTrace # <<>> =>
          LET last == uaTrace[Len(uaTrace)]
          IN  (last.op \in {"poll_inbound", "poll_outbound"} /\ IsReady(last.res))
                  => ua[SlotOf(last.op)] = "None"

-----------------------------------------------------------------------------
(* Properties of the composite futures under the Future contract
   (SpecListen: no future is polled again after it returned Ready) *)

\* C32: whatever the base transport's future, the negotiators and the
\* upgrade futures return (Pending, Ready(Ok), Ready(Err), in any order), a
\* connection's future that is not polled again after it returned Ready
\* never panics: no layer's poll unwinds.
C32_NoPanic == \A i \in DOMAIN conns : conns[i].ret.tag # "Panic"

\* A connection through authenticate, apply and multiplex was suspended and
\* later failed.
C32_Witness ==
    \E i \in DOMAIN conns :
        /\ Len(pipeline) = 4
        /\ IsReadyErr(conns[i].ret)
        /\ \E j \in DOMAIN conns[i].log :
              conns[i].log[j].ev = "start" /\ conns[i].log[j].stage = 3

\* The last event of connection i's history.
LastLog(i) == conns[i].log[Len(conns[i].log)]

\* C33: a connection's future returns Pending only when the future it
\* polled last in that poll (the base transport's future, a negotiator, an
\* upgrade's future or the future of an and_then function) returned
\* Pending; so a stage that became Ready(Ok) is never what a suspended
\* future stopped at: the next stage was built and polled in the same poll.
C33_NoExtraSuspension ==
    \A i \in DOMAIN conns :
        conns[i].ret = PollPending =>
            /\ conns[i].leaf = PollPending
            /\ conns[i].log # <<>> => LastLog(i).ev \in {"start", "call", "fn"}

\* A connection through and_then is suspended in its second stage: the
\* inner future was ready and the function's future is pending.
C33_Witness ==
    \E i \in DOMAIN conns :
        /\ conns[i].ret = PollPending
        /\ conns[i].log # <<>>
        /\ LastLog(i).ev = "fn"
        /\ \E j \in DOMAIN conns[i].log :
              conns[i].log[j].ev = "base" /\ IsReadyOk(conns[i].log[j].ret)

-----------------------------------------------------------------------------
(* Specification SpecRepoll: a connection's future polled after Ready *)

\* The transports whose futures are polled again: map(f), and_then(f) and
\* the authenticate / apply / multiplex / boxed pipeline.
RepollStacks == {<<"map">>, <<"and_then">>, Pipeline(1)}

InitRepoll ==
    /\ UaIdle
    /\ NegIdle
    /\ LsIdle
    /\ pipeline \in RepollStacks
    /\ conns = <<>>

\* What the poll after Ready returned.
Repolled(res) == [tag |-> "Repolled", res |-> res]

\* The owner polls a connection's future once more after it returned Ready.
RepollConn ==
    /\ \E i \in DOMAIN conns :
          /\ IsReady(conns[i].ret)
          /\ \E r \in Layer_poll(pipeline, Len(pipeline), conns[i]) :
                conns' = [conns EXCEPT ![i] = [r.c EXCEPT !.ret = Repolled(r.ret)]]
    /\ UNCHANGED <<pipeline, uaVars, negVars, lsVars>>

NextRepoll == ConnectOk \/ PollConn \/ RepollConn

SpecRepoll == InitRepoll /\ [][NextRepoll]_vars

\* C35: a poll of a MapFuture, AndThenFuture, UpgradeFuture or Multiplex
\* issued after the future returned Ready (Ok or Err) is fatal: it never
\* yields a second result.
C35_RepollFatal ==
    \A i \in DOMAIN conns :
        conns[i].ret.tag = "Repolled" => ~IsReady(conns[i].ret.res)

\* The AndThenFuture layers of connection i.
AndThenLayers(i) ==
    {k \in DOMAIN conns[i].layers : conns[i].layers[k].layer = "AndThenFuture"}

\* C40: between polls an AndThenFuture holds args exactly when inner is
\* Left; a poll never turns Right back into Left; so the take of args in the
\* Left arm finds them, also in a poll issued after the inner future
\* returned an error.
C40_AndThenArgsInvariant ==
    /\ [](\A i \in DOMAIN conns : \A k \in AndThenLayers(i) :
             conns[i].layers[k].args.some <=> conns[i].layers[k].inner = "Left")
    /\ [][\A i \in DOMAIN conns : \A k \in AndThenLayers(i) :
            (conns[i].layers[k].inner = "Right" /\ conns'[i].ret # NotPolled) =>
                conns'[i].layers[k].inner = "Right"]_vars

\* An and_then future returned the inner future's error, was polled again,
\* and in that poll the inner future returned Ok: args were taken, the map
\* function ran and the future moved to Right.
C40_Witness ==
    /\ pipeline = <<"and_then">>
    /\ conns # <<>>
    /\ conns[1].ret.tag = "Repolled"
    /\ conns[1].layers[1].inner = "Right"
    /\ ~conns[1].layers[1].args.some
    /\ \E m, n \in DOMAIN conns[1].log :
          /\ m < n
          /\ conns[1].log[m].ev = "error"
          /\ conns[1].log[n].ev = "fn"

-----------------------------------------------------------------------------
(* Specification SpecMuxFair: the QUIC muxer polled without end *)

\* Close(muxer) as a future: its poll is the muxer's poll_close.
Close_poll(m) == Connection_poll_close(m)

\* One call on the muxer.  The calls are not logged; uaPolls is a clock of
\* the calls made, kept finite by counting modulo MaxPolls + 1.
MuxRecall(r) ==
    /\ ua' = r.m
    /\ uaPolls' = (uaPolls + 1) % (MaxPolls + 1)
    /\ UNCHANGED <<uaArgs, uaTrace, negVars, pipeVars, lsVars>>

RepollInbound ==
    /\ ua.state = "Connection"
    /\ \E out \in BiOutcomes(ua) : MuxRecall(Connection_poll_inbound(ua, out))

RepollOutbound ==
    /\ ua.state = "Connection"
    /\ \E out \in BiOutcomes(ua) : MuxRecall(Connection_poll_outbound(ua, out))

RepollClose ==
    /\ ua.state = "Connection"
    /\ MuxRecall(Close_poll(ua))

RepollEvents ==
    /\ ua.state = "Connection"
    /\ MuxRecall(Connection_poll(ua))

\* The peer closes the connection, or it fails.
RemoteClosed ==
    /\ ua.state = "Connection"
    /\ ua.connection = ConnectionOpen
    /\ \E e \in MuxConnectionErrors \ {LocallyClosed} :
          ua' = [ua EXCEPT !.connection = e]
    /\ UNCHANGED <<uaArgs, uaTrace, uaPolls, negVars, pipeVars, lsVars>>

NextMuxFair ==
    MuxNew \/ RemoteClosed \/ RepollInbound \/ RepollOutbound
        \/ RepollClose \/ RepollEvents

\* The muxer is made and poll_close is polled again and again; nothing is
\* assumed of the peer.
SpecMuxFair ==
    /\ InitMux
    /\ [][NextMuxFair]_vars
    /\ WF_vars(MuxNew)
    /\ SF_vars(RepollClose)

\* C31: when poll_close is polled repeatedly on an open muxer, it eventually
\* returns Ready, unless the peer closed or failed the connection.
C31_CloseTerminates ==
    <>(/\ ua # NotCreated
       /\ \/ ua.closing = "Finished"
          \/ ua.state = "Unwound"
          \/ ua.connection # ConnectionOpen)

-----------------------------------------------------------------------------
(* Properties of cancellation (SpecCancel) *)

NonTerminal == {"DialerInit", "ListenerInit", "Upgrade"}
\* The stream under a Negotiated wrapper.
RawStream(x) == IF x # <<>> /\ x[1] = "negotiated" THEN Tail(x) ELSE x
\* The state the UpgradeApply is in, or was in when it was dropped.
LiveState == IF ua.state = "Dropped" THEN ua.from ELSE ua.state
\* The streams it owns, or owned when it was dropped and so released.
OwnedStreams == IF ua.state = "Dropped" THEN ua.released ELSE StateStreams(ua)
\* The negotiated upgrade is a PendingUpgrade, whose entrypoint has dropped
\* the stream already.
StreamDroppedByUpgrade ==
    /\ ua.state = "Upgrade"
    /\ \E l \in LeavesOf(uaArgs.upgrade) :
          l.protocol_name = ua.name /\ l.kind = "pending"

\* C34 as stated: in every non-terminal state the stream is owned by exactly
\* one field of the state, so a drop releases exactly that stream.
C34_Original ==
    LiveState \in NonTerminal =>
        /\ Len(OwnedStreams) = 1
        /\ RawStream(OwnedStreams[1]) = uaArgs.io

\* C34 (amended): in every non-terminal state the stream is owned by at most
\* one field of the state - exactly one in DialerInit and ListenerInit, and
\* in Upgrade unless the upgrade's entrypoint has itself dropped the stream
\* (PendingUpgrade) - so dropping the UpgradeApply at any suspension point
\* releases the stream, never twice, and no field of the state holds an
\* upgrade result.
C34_CancellationReleases ==
    /\ (ua.state \in NonTerminal) =>
          /\ Len(StateStreams(ua)) <= 1
          /\ Len(StateStreams(ua)) = 0 => StreamDroppedByUpgrade
          /\ \A k \in DOMAIN StateStreams(ua) :
                RawStream(StateStreams(ua)[k]) = uaArgs.io
          /\ DOMAIN ua \subseteq {"state", "future", "upgrade", "name"}
    /\ (ua.state = "Dropped" /\ ua.from \in NonTerminal) =>
          /\ Len(ua.released) <= 1
          /\ \A k \in DOMAIN ua.released : RawStream(ua.released[k]) = uaArgs.io
          /\ (ua.from # "Upgrade") => Len(ua.released) = 1
          /\ DOMAIN ua = {"state", "from", "released"}

\* An UpgradeApply was dropped while its upgrade's future was pending, and
\* the negotiated stream was released with it.
C34_Witness ==
    /\ ua.state = "Dropped"
    /\ ua.from = "Upgrade"
    /\ Len(ua.released) = 1
    /\ uaTrace # <<>>
    /\ uaTrace[Len(uaTrace)] = EvReturn(PollPending)

-----------------------------------------------------------------------------
(* Specification SpecIndep: the upgrade futures of one listener *)

\* The transports listened on: map(f), and_then(f) and the builder's
\* pipeline.
IndepStacks == {<<"map">>, <<"and_then">>, Pipeline(0)}

InitIndep ==
    /\ UaIdle
    /\ NegIdle
    /\ LsIdle
    /\ pipeline \in IndepStacks
    /\ conns = <<>>

\* The caller polls the listener and keeps the upgrade future of every
\* Incoming event.
PollListenerKeep ==
    /\ lsn.state = "listening"
    /\ Len(conns) < Len(RawStreams)
    /\ \E base \in BaseItems :
          LET items == Listener_items(pipeline, Len(pipeline), base)
              out == items[Len(items)]
          IN  /\ lsn' = IF base.ev = "None" THEN [lsn EXCEPT !.state = "ended"]
                        ELSE lsn
              /\ conns' = IF out.ev = "Incoming"
                          THEN Append(conns,
                                      NewConnAt("incoming",
                                                RawStreams[Len(conns) + 1],
                                                out.upgrade,
                                                ConnectedPoint_Listener(base.local_addr,
                                                                        base.remote_addr)))
                          ELSE conns
    /\ UNCHANGED <<pipeline, lsHist, lsSync, uaVars, negVars>>

\* An upgrade future after its owner dropped it.
DroppedConn(c) == [c EXCEPT !.ret = [tag |-> "Dropped"], !.layers = <<>>]

\* The owner of an upgrade future drops it before it has returned Ready.
DropConn ==
    /\ \E i \in DOMAIN conns :
          /\ conns[i].ret.tag \in {"NotPolled", "Pending"}
          /\ conns' = [conns EXCEPT ![i] = DroppedConn(@)]
    /\ UNCHANGED <<pipeline, lsVars, uaVars, negVars>>

NextIndep == Listen \/ PollListenerKeep \/ PollConn \/ DropConn

SpecIndep == InitIndep /\ [][NextIndep]_vars

\* The arguments a layer of a future still holds, and the connected points
\* its map functions were called with.
HeldPoints(c) ==
    {c.layers[k].args.v.connected_point :
        k \in {k \in DOMAIN c.layers :
                  /\ "args" \in DOMAIN c.layers[k]
                  /\ c.layers[k].args.some}}
    \cup {c.log[n].p : n \in {n \in DOMAIN c.log : c.log[n].ev = "fn"}}

\* C37: the upgrade futures of the Incoming events of one listener are
\* independent.  Each holds its own copy of the map function's arguments
\* with the ConnectedPoint of its own event, and a step that polls, fails
\* or drops one of them changes neither the listener nor any other future.
C37_FuturesIndependent ==
    /\ [](\A i \in DOMAIN conns : HeldPoints(conns[i]) \subseteq {conns[i].point})
    /\ [][\A i \in DOMAIN conns :
            (i \in DOMAIN conns' /\ conns'[i] # conns[i]) =>
                /\ lsn' = lsn
                /\ DOMAIN conns' = DOMAIN conns
                /\ \A j \in DOMAIN conns \ {i} : conns'[j] = conns[j]]_vars

\* The first future failed or was dropped, the listener went on to yield a
\* second Incoming event from another peer, and that future succeeded.
C37_Witness ==
    /\ Len(conns) = 2
    /\ Len(pipeline) = 3
    /\ conns[1].ret.tag = "Dropped" \/ IsReadyErr(conns[1].ret)
    /\ conns[1].point # conns[2].point
    /\ IsReadyOk(conns[2].ret)
    /\ lsn.state = "listening"

-----------------------------------------------------------------------------
(* Specification SpecConnecting: the QUIC handshake future *)

\* Error::HandshakeTimedOut, the variant of the transport's Error that wraps
\* no other error.
HandshakeTimedOut ==
    [type |-> "quic::Error", from |-> [type |-> "HandshakeTimedOut", e |-> "none"]]

\* The errors a quinn handshake can end with; TimedOut is quinn's own idle
\* timeout.
HandshakeErrors ==
    QuicConnectionErrors \cup {[type |-> "ConnectionError", e |-> "TimedOut"]}

\* The state of a quinn::Connecting: handshaking, or finished with a
\* connection to a peer or with an error.
Handshaking == [state |-> "Handshaking"]
HandshakeResults ==
    {[state |-> "Established", peer |-> p] : p \in PeerIds}
    \cup {[state |-> "Failed", err |-> e] : e \in HandshakeErrors}

\* A poll of the quinn::Connecting.
QuinnConnecting_poll(h) ==
    IF h.state = "Handshaking" THEN PollPending
    ELSE IF h.state = "Established" THEN ReadyOk(h.peer)
    ELSE ReadyErr(h.err)

\* A poll of Delay::new(timeout) created at time 0.
Delay_poll(timeout, now) ==
    IF now >= timeout THEN ReadyOk("elapsed") ELSE PollPending

\* select polling the timer before the handshake.
Select_poll_TimerFirst(a, b) ==
    IF IsReady(b) THEN [tag |-> "Ready", variant |-> "Right", val |-> b]
    ELSE IF IsReady(a) THEN [tag |-> "Ready", variant |-> "Left", val |-> a]
    ELSE PollPending

\* Select::poll of the futures crate, given what a poll of each side
\* returns: the left side is polled first, the right side only when the
\* left is pending.
Select_poll(a, b) ==
    IF IsReady(a) THEN [tag |-> "Ready", variant |-> "Left", val |-> a]
    ELSE IF IsReady(b) THEN [tag |-> "Ready", variant |-> "Right", val |-> b]
    ELSE PollPending

\* Connecting::new
Connecting_new(timeout) ==
    [state |-> "Connecting", handshake |-> Handshaking, timeout |-> timeout,
     now |-> 0, ret |-> NotPolled]

\* remote_peer_id: the peer id is the digest of the peer's certificate key.
remote_peer_id(peer) == peer

\* <Connecting as Future>::poll
Connecting_poll(c) ==
    LET sel == Select_poll(QuinnConnecting_poll(c.handshake),
                           Delay_poll(c.timeout, c.now))
    IN  IF sel.tag = "Pending" THEN PollPending
        ELSE IF sel.variant = "Right" THEN ReadyErr(HandshakeTimedOut)
        ELSE IF sel.val.ok
        THEN ReadyOk([peer_id |-> remote_peer_id(sel.val.val),
                      muxer |-> Connection_new])
        ELSE ReadyErr(QuicError_from(sel.val.err))

\* One poll of the Connecting future: what the handshake and the timer had
\* come to when it was polled, and what it returned.
EvConnecting(c, ret) ==
    [ev |-> "poll", handshake |-> c.handshake,
     elapsed |-> (c.now >= c.timeout), ret |-> ret]

InitConnecting == UaIdle /\ NegIdle /\ PipeIdle /\ LsIdle

\* Config::dial / the listener creates the Connecting with its
\* handshake_timeout.
ConnectingNew ==
    /\ ua = NotCreated
    /\ \E timeout \in 1..MaxPolls :
          ua' = Connecting_new(timeout)
    /\ UNCHANGED <<uaArgs, uaTrace, uaPolls, negVars, pipeVars, lsVars>>

\* The handshake finishes.
HandshakeEnds ==
    /\ ua # NotCreated
    /\ ua.handshake = Handshaking
    /\ ~IsReady(ua.ret)
    /\ \E h \in HandshakeResults : ua' = [ua EXCEPT !.handshake = h]
    /\ UNCHANGED <<uaArgs, uaTrace, uaPolls, negVars, pipeVars, lsVars>>

\* Time passes.
ClockTick ==
    /\ ua # NotCreated
    /\ ua.now < MaxPolls
    /\ ~IsReady(ua.ret)
    /\ ua' = [ua EXCEPT !.now = @ + 1]
    /\ UNCHANGED <<uaArgs, uaTrace, uaPolls, negVars, pipeVars, lsVars>>

\* The owner polls the Connecting until it returns Ready.
ConnectingPoll ==
    /\ ua # NotCreated
    /\ ~IsReady(ua.ret)
    /\ uaPolls < MaxPolls
    /\ LET ret == Connecting_poll(ua)
       IN  /\ ua' = [ua EXCEPT !.ret = ret]
           /\ uaTrace' = Append(uaTrace, EvConnecting(ua, ret))
    /\ uaPolls' = uaPolls + 1
    /\ UNCHANGED <<uaArgs, negVars, pipeVars, lsVars>>

NextConnecting == ConnectingNew \/ HandshakeEnds \/ ClockTick \/ ConnectingPoll

SpecConnecting == InitConnecting /\ [][NextConnecting]_vars

\* C36: a poll of the Connecting future returns Error::HandshakeTimedOut
\* exactly when the timer has elapsed and the handshake has not finished by
\* that poll; when the handshake has finished, the poll returns the
\* handshake's result, whether or not the timer has elapsed too.
C36_TimeoutIffTimerAlone ==
    \A i \in DOMAIN uaTrace :
        LET ev == uaTrace[i]
        IN  /\ (ev.ret = ReadyErr(HandshakeTimedOut))
                 <=> (ev.elapsed /\ ev.handshake = Handshaking)
            /\ ev.handshake # Handshaking =>
                 /\ IsReady(ev.ret)
                 /\ IF ev.handshake.state = "Established"
                    THEN ev.ret.ok /\ ev.ret.val.peer_id = ev.handshake.peer
                    ELSE ev.ret = ReadyErr(QuicError_from(ev.handshake.err))

\* The handshake failed with quinn's TimedOut after the timer had elapsed,
\* and the poll returned the handshake's error.
C36_Witness ==
    /\ uaTrace # <<>>
    /\ LET ev == uaTrace[Len(uaTrace)]
       IN  /\ ev.elapsed
           /\ ev.handshake # Handshaking
           /\ ev.handshake.state = "Failed"
           /\ ev.handshake.err.e = "TimedOut"
           /\ ev.ret # ReadyErr(HandshakeTimedOut)
    /\ \E j \in DOMAIN uaTrace : uaTrace[j].ret = PollPending

====
